---------------------------- MODULE Spec2Model ----------------------------
(***************************************************************************)
(* The dynamic query-building layer of the backend (utils/queryParser.js): *)
(* QueryParser (simple mode), QueryConfig, UniversalQueryBuilder and       *)
(* UniversalPipelineBuilder (aggregation mode), run against a small        *)
(* document collection.                                                    *)
(*                                                                         *)
(* JavaScript values are tagged records [t, v]; JavaScript strings are     *)
(* TLA+ strings, read character by character with SubSeq.  The strings of  *)
(* the model hold no character that JSON.stringify escapes (no quote, no   *)
(* backslash, no control character).                                       *)
(***************************************************************************)
EXTENDS Integers, Sequences, FiniteSets, TLC

VARIABLES
  cls,               \* the class of the object the caller works on
  pc,                \* the caller's position in its call chain
  coll,              \* the collection behind Model: a set of documents
  query,             \* QueryParser.query / the options given to QueryConfig.build
  mongoQuery,        \* QueryParser.mongoQuery
  sortOptions,       \* QueryParser.sortOptions / UniversalPipelineBuilder.sort
  selectFields,      \* QueryParser.selectFields
  paginationOptions, \* QueryParser.paginationOptions
  pipeline,          \* builder.pipeline, a sequence of stages
  page,              \* UniversalPipelineBuilder.page
  limit,             \* UniversalPipelineBuilder.limit
  paginateArg,       \* the paginate argument of the exec call under way
  data,              \* the records the data fetch returned
  total,             \* the number the count returned
  result,            \* what execute / exec / build returned
  session,           \* builder.session
  aggSession,        \* the session the aggregation of the exec under way runs under
  countSession,      \* the session the count of the exec under way runs under
  matchArg,          \* the argument of the last match / setMatchStages call
  sortArg,           \* the argument of the last sortBy / setSort call
  isValidTwelve,     \* whether ObjectId.isValid of the installed bson accepts
                     \* a string of 12 characters (bson before 6.0 does)
  storageLog,        \* the storage operations of the execute / exec call under way,
                     \* as they were issued and answered
  execs,             \* the exec calls made on the builder: the pipeline each found,
                     \* its paginate argument and what it returned
  execsLeft,         \* the exec calls the caller has yet to make on the builder
  userId             \* req.user._id, which a user-scoped service merges into the query

vars == <<cls, pc, coll, query, mongoQuery, sortOptions, selectFields,
          paginationOptions, pipeline, page, limit, paginateArg,
          data, total, result, session, aggSession, countSession,
          matchArg, sortArg, isValidTwelve, storageLog, execs, execsLeft, userId>>

---------------------------------------------------------------------------
(* Bounds of the model.                                                    *)

MaxDocs == 13      \* documents in the collection
MaxPageArg == 3    \* the largest page asked for
MaxLimitArg == 6   \* the largest small limit asked for (100, 101, 250 besides)
MaxOps == 2        \* keys in one operator mapping of a raw query
MaxExecs == 2      \* exec calls on one builder
MaxJoinDocs == 4   \* documents in the collection of the join listings

\* this.limit = 20 of the UniversalPipelineBuilder constructor
DefaultLimit == 20

---------------------------------------------------------------------------
(* JavaScript values.                                                      *)

Undef == [t |-> "undefined", v |-> "undefined"]
Null == [t |-> "null", v |-> "null"]
Str(s) == [t |-> "string", v |-> s]
Num(n) == [t |-> "number", v |-> n]
NaN == [t |-> "NaN", v |-> "NaN"]
Infinity == [t |-> "Infinity", v |-> "Infinity"]
Bool(b) == [t |-> "boolean", v |-> b]
Obj(f) == [t |-> "object", v |-> f]
Arr(a) == [t |-> "array", v |-> a]
DateV(s) == [t |-> "Date", v |-> s]
ObjectId(s) == [t |-> "ObjectId", v |-> s]
EmptyObj == Obj(<<>>)

\* typeof value === 'object'
IsObjectType(x) == x.t \in {"object", "array", "null", "Date", "ObjectId"}

\* ToBoolean(x): what `x || d`, `if (x)` and `!!x` test
Truthy(x) ==
  CASE x.t = "undefined" -> FALSE
    [] x.t = "null" -> FALSE
    [] x.t = "NaN" -> FALSE
    [] x.t = "number" -> x.v # 0
    [] x.t = "string" -> x.v # ""
    [] x.t = "boolean" -> x.v
    [] OTHER -> TRUE

\* a || b
OrElse(a, b) == IF Truthy(a) THEN a ELSE b

\* obj.key of a mapping held as a function from key to value
Get(f, k) == IF k \in DOMAIN f THEN f[k] ELSE Undef

\* value.key for any value: undefined unless value is a mapping holding key
Prop(x, k) == IF x.t = "object" THEN Get(x.v, k) ELSE Undef

\* { ...f, [k]: x }
Put(f, k, x) == [j \in DOMAIN f \cup {k} |-> IF j = k THEN x ELSE f[j]]

---------------------------------------------------------------------------
(* Strings.                                                                *)

Char(s, i) == SubSeq(s, i, i)

Digits == {"0", "1", "2", "3", "4", "5", "6", "7", "8", "9"}
LowerLetters == {"a", "b", "c", "d", "e", "f", "g", "h", "i", "j", "k", "l", "m",
                 "n", "o", "p", "q", "r", "s", "t", "u", "v", "w", "x", "y", "z"}
UpperLetters == {"A", "B", "C", "D", "E", "F", "G", "H", "I", "J", "K", "L", "M",
                 "N", "O", "P", "Q", "R", "S", "T", "U", "V", "W", "X", "Y", "Z"}

\* \w of a regular expression
IsWordChar(c) == c \in Digits \cup LowerLetters \cup UpperLetters \cup {"_"}

DigitVal(c) ==
  CASE c = "0" -> 0 [] c = "1" -> 1 [] c = "2" -> 2 [] c = "3" -> 3 [] c = "4" -> 4
    [] c = "5" -> 5 [] c = "6" -> 6 [] c = "7" -> 7 [] c = "8" -> 8 [] c = "9" -> 9

DigitChar(d) ==
  CASE d = 0 -> "0" [] d = 1 -> "1" [] d = 2 -> "2" [] d = 3 -> "3" [] d = 4 -> "4"
    [] d = 5 -> "5" [] d = 6 -> "6" [] d = 7 -> "7" [] d = 8 -> "8" [] d = 9 -> "9"

\* String(n) of an integer
RECURSIVE NatToString(_)
NatToString(n) ==
  IF n < 10 THEN DigitChar(n) ELSE NatToString(n \div 10) \o DigitChar(n % 10)

IntToString(n) == IF n < 0 THEN "-" \o NatToString(-n) ELSE NatToString(n)

\* the index after the last character of the run of digits that starts at i
RECURSIVE DigitsEnd(_, _)
DigitsEnd(s, i) ==
  IF i <= Len(s) /\ Char(s, i) \in Digits THEN DigitsEnd(s, i + 1) ELSE i

\* the value of the digits of s at i .. j-1, given the value acc of those before
RECURSIVE DigitsValue(_, _, _, _)
DigitsValue(s, i, j, acc) ==
  IF i >= j THEN acc ELSE DigitsValue(s, i + 1, j, acc * 10 + DigitVal(Char(s, i)))

\* the index of the first character of s at or after i that is not white space
RECURSIVE SkipSpace(_, _)
SkipSpace(s, i) ==
  IF i <= Len(s) /\ Char(s, i) = " " THEN SkipSpace(s, i + 1) ELSE i

\* parseInt(string, 10): leading white space, an optional sign, then the longest
\* run of digits; NaN when that run is empty.  (Without a radix, parseInt reads a
\* 0x prefix as hexadecimal; no string of the model starts so.)
ParseIntString(s) ==
  LET i == SkipSpace(s, 1)
      neg == i <= Len(s) /\ Char(s, i) = "-"
      signed == i <= Len(s) /\ Char(s, i) \in {"-", "+"}
      b == IF signed THEN i + 1 ELSE i
      e == DigitsEnd(s, b)
  IN IF e = b THEN NaN
     ELSE IF neg THEN Num(0 - DigitsValue(s, b, e, 0)) ELSE Num(DigitsValue(s, b, e, 0))

\* parseInt(x): x is converted to a string first
ParseInt(x) ==
  CASE x.t = "string" -> ParseIntString(x.v)
    [] x.t = "number" -> x
    [] OTHER -> NaN

LowerOf(c) ==
  CASE c = "A" -> "a" [] c = "B" -> "b" [] c = "C" -> "c" [] c = "D" -> "d"
    [] c = "E" -> "e" [] c = "F" -> "f" [] c = "G" -> "g" [] c = "H" -> "h"
    [] c = "I" -> "i" [] c = "J" -> "j" [] c = "K" -> "k" [] c = "L" -> "l"
    [] c = "M" -> "m" [] c = "N" -> "n" [] c = "O" -> "o" [] c = "P" -> "p"
    [] c = "Q" -> "q" [] c = "R" -> "r" [] c = "S" -> "s" [] c = "T" -> "t"
    [] c = "U" -> "u" [] c = "V" -> "v" [] c = "W" -> "w" [] c = "X" -> "x"
    [] c = "Y" -> "y" [] c = "Z" -> "z" [] OTHER -> c

\* s.toLowerCase()
RECURSIVE ToLowerCase(_)
ToLowerCase(s) ==
  IF s = "" THEN "" ELSE LowerOf(Char(s, 1)) \o ToLowerCase(SubSeq(s, 2, Len(s)))

\* s.includes(sub)
Includes(s, sub) ==
  \E i \in 1..(Len(s) - Len(sub) + 1) : SubSeq(s, i, i + Len(sub) - 1) = sub

\* s.split(sep) for a separator of one character
RECURSIVE Split(_, _)
Split(s, sep) ==
  IF ~Includes(s, sep) THEN <<Str(s)>>
  ELSE LET i == CHOOSE k \in 1..Len(s) :
                  /\ Char(s, k) = sep
                  /\ \A j \in 1..(k - 1) : Char(s, j) # sep
       IN <<Str(SubSeq(s, 1, i - 1))>> \o Split(SubSeq(s, i + 1, Len(s)), sep)

\* parts.join(sep)
RECURSIVE Join(_, _)
Join(parts, sep) ==
  IF Len(parts) = 0 THEN ""
  ELSE IF Len(parts) = 1 THEN parts[1].v
  ELSE parts[1].v \o sep \o Join(Tail(parts), sep)

AllDigits(s) == Len(s) > 0 /\ \A i \in 1..Len(s) : Char(s, i) \in Digits

HexChars == Digits \cup {"a", "b", "c", "d", "e", "f", "A", "B", "C", "D", "E", "F"}

\* Types.ObjectId.isValid(string): 24 hexadecimal characters; bson before 6.0
\* accepts every string of 12 characters too (the 12 bytes of an identifier)
IsValidObjectId(s) ==
  \/ Len(s) = 24 /\ \A i \in 1..24 : Char(s, i) \in HexChars
  \/ Len(s) = 12 /\ isValidTwelve

\* the ISO-8601 calendar date YYYY-MM-DD
IsIsoDate(s) ==
  /\ Len(s) = 10
  /\ AllDigits(SubSeq(s, 1, 4)) /\ Char(s, 5) = "-"
  /\ AllDigits(SubSeq(s, 6, 7)) /\ Char(s, 8) = "-"
  /\ AllDigits(SubSeq(s, 9, 10))
  /\ DigitsValue(s, 6, 8, 0) \in 1..12
  /\ DigitsValue(s, 9, 11, 0) \in 1..31

\* QueryParser.isValidDate: !isNaN(new Date(dateString)).  Date.parse reads the
\* ISO format and otherwise falls back to the engine's own parser; the one of
\* Node (V8) reads a string of digits alone as a month (1..12) or as a year
\* (0, 32..99 as two-digit years, 100 and above as they are) and rejects 13..31.
isValidDate(dateString) ==
  \/ IsIsoDate(dateString)
  \/ /\ AllDigits(dateString)
     /\ Len(dateString) <= 6
     /\ DigitsValue(dateString, 1, Len(dateString) + 1, 0) \notin 13..31

---------------------------------------------------------------------------
(* QueryParser.filter: JSON.stringify, the operator rewrite, JSON.parse.   *)

\* the alternation with lte left out
OpWordsMutant == {"gte", "gt", "lt", "in", "nin", "ne", "regex"}

\* the alternation of the pattern /\b(gte|gt|lte|lt|in|nin|ne|regex)\b/g
OpWords == {"gte", "gt", "lte", "lt", "in", "nin", "ne", "regex"}

\* the index after the last character of the run of word characters at i
RECURSIVE WordEnd(_, _)
WordEnd(s, i) ==
  IF i <= Len(s) /\ IsWordChar(Char(s, i)) THEN WordEnd(s, i + 1) ELSE i

\* s.replace(/\b(gte|gt|lte|lt|in|nin|ne|regex)\b/g, match => `$${match}`) from
\* index i on, i being at a word boundary: between two \b the pattern can only
\* match a whole maximal run of word characters.
RECURSIVE ReplaceFrom(_, _)
ReplaceFrom(s, i) ==
  IF i > Len(s) THEN ""
  ELSE IF IsWordChar(Char(s, i))
       THEN LET j == WordEnd(s, i)
                w == SubSeq(s, i, j - 1)
            IN (IF w \in OpWords THEN "$" \o w ELSE w) \o ReplaceFrom(s, j)
       ELSE Char(s, i) \o ReplaceFrom(s, i + 1)

ReplaceOperators(s) == ReplaceFrom(s, 1)

\* JSON.parse(JSON.stringify(x).replace(...)).  In the JSON text every key and
\* every string value stands between quotes, which are not word characters, so
\* the rewrite acts on each key and each string value as on a string of its own;
\* numbers, true, false and null hold no operator word.  JSON.stringify drops
\* the keys whose value is undefined and writes an ObjectId as its hex string.
RECURSIVE JsonRewrite(_)
JsonRewrite(x) ==
  CASE x.t = "string" -> Str(ReplaceOperators(x.v))
    [] x.t = "ObjectId" -> Str(ReplaceOperators(x.v))
    [] x.t = "array" -> Arr([i \in DOMAIN x.v |-> JsonRewrite(x.v[i])])
    [] x.t = "object" ->
         LET keep == {k \in DOMAIN x.v : x.v[k].t # "undefined"}
         IN Obj([nk \in {ReplaceOperators(k) : k \in keep} |->
                  JsonRewrite(x.v[CHOOSE k \in keep : ReplaceOperators(k) = nk])])
    [] OTHER -> x

\* the default of the constructor's excludeFields, the one every caller uses
excludeFields == {"page", "limit", "sort", "fields"}

\* the body of the forEach of handleSpecialQueries for one key: each rule tests
\* the value read before the rules (const value) and overwrites mongoQuery[key]
SpecialValue(key, value) ==
  LET afterComma ==
        IF value.t = "string" /\ Includes(value.v, ",")
        THEN Obj("$in" :> Arr(Split(value.v, ",")))
        ELSE value
      afterId ==
        IF Includes(ToLowerCase(key), "id") /\ value.t = "string"
           /\ IsValidObjectId(value.v)
        THEN ObjectId(value.v)
        ELSE afterComma
      afterBool ==
        IF value.t = "string" /\ ToLowerCase(value.v) = "true" THEN Bool(TRUE)
        ELSE IF value.t = "string" /\ ToLowerCase(value.v) = "false" THEN Bool(FALSE)
        ELSE afterId
  IN IF IsObjectType(value) /\ Truthy(Prop(value, "$regex"))
     THEN Obj(("$regex" :> Prop(value, "$regex")) @@
              ("$options" :> OrElse(Prop(value, "$options"), Str("i"))))
     ELSE afterBool

RangeOperators == {"$gte", "$gt", "$lte", "$lt"}

\* the body of the forEach of handleDateRanges for one value
DateRangeValue(value) ==
  IF value.t = "object"
  THEN Obj([operator \in DOMAIN value.v |->
             LET dateValue == value.v[operator]
             IN IF operator \in RangeOperators /\ dateValue.t = "string"
                   /\ isValidDate(dateValue.v)
                THEN DateV(dateValue.v)
                ELSE dateValue])
  ELSE value

handleDateRanges(mq) == [key \in DOMAIN mq |-> DateRangeValue(mq[key])]

\* handleSpecialQueries, on the mongoQuery mq of the parser whose raw query is q
handleSpecialQueries(mq, q) ==
  LET special == [key \in DOMAIN mq |-> SpecialValue(key, mq[key])]
      withText == IF Truthy(Get(q, "search"))
                  THEN Put(special, "$text", Obj("$search" :> q["search"]))
                  ELSE special
  IN handleDateRanges(withText)

\* the mongoQuery that filter() leaves for the raw query q
filter(q) ==
  LET filteredQuery == [k \in DOMAIN q \ excludeFields |-> q[k]]
  IN handleSpecialQueries(JsonRewrite(Obj(filteredQuery)).v, q)

---------------------------------------------------------------------------
(* JavaScript numbers: Num(n), NaN, Infinity.                              *)

\* a * b
JsTimes(a, b) == IF a.t = "number" /\ b.t = "number" THEN Num(a.v * b.v) ELSE NaN

\* a + b and a - b, on numbers
JsPlus(a, b) == IF a.t = "number" /\ b.t = "number" THEN Num(a.v + b.v) ELSE NaN
JsMinus(a, b) == IF a.t = "number" /\ b.t = "number" THEN Num(a.v - b.v) ELSE NaN

\* a / b where the quotient is an integer; every division of the model is
\* skip / limit with skip a multiple of limit
JsDivide(a, b) ==
  IF a.t = "number" /\ b.t = "number" /\ b.v # 0
  THEN IF b.v > 0 THEN Num(a.v \div b.v) ELSE Num((0 - a.v) \div (0 - b.v))
  ELSE NaN

\* Math.min(a, b)
MathMin(a, b) ==
  IF a.t = "number" /\ b.t = "number" THEN (IF a.v < b.v THEN a ELSE b) ELSE NaN

\* Math.ceil(a / b)
CeilDiv(a, b) ==
  IF a.t = "number" /\ b.t = "number"
  THEN IF b.v > 0 THEN Num(0 - ((0 - a.v) \div b.v))
       ELSE IF b.v < 0 THEN Num(0 - (a.v \div (0 - b.v)))
       ELSE IF a.v = 0 THEN NaN ELSE Infinity
  ELSE NaN

\* a < b and a > b
JsLess(a, b) ==
  \/ a.t = "number" /\ b.t = "number" /\ a.v < b.v
  \/ a.t = "number" /\ b.t = "Infinity"
JsGreater(a, b) == JsLess(b, a)

---------------------------------------------------------------------------
(* The collection behind Model, and what the storage does with a filter,   *)
(* a sort, a window and a pipeline.                                        *)

Statuses == <<"active", "pending", "archived">>

\* document number i: created in the order of the numbers
Doc(i) ==
  ("_id" :> Num(i)) @@ ("createdAt" :> Num(i)) @@
  ("status" :> Str(Statuses[(i % 3) + 1])) @@ ("price" :> Num(10 * (i % 4)))

Pending == [t |-> "pending", v |-> "pending"]
Failure(msg) == [t |-> "error", v |-> msg]

\* an entry of the record of storage operations: the operation op was issued,
\* or its promise was fulfilled or rejected
Event(op, ev) == [op |-> op, ev |-> ev]

\* how the promise of an operation settled, given what it settled with
Outcome(answer) == IF answer.t = "error" THEN "rejected" ELSE "fulfilled"

\* the rejections among the entries of log, first one first: Promise.all and
\* await throw what the first of them was rejected with
IsRejection(e) == e.ev = "rejected"
Rejections(log) == SelectSeq(log, IsRejection)

\* the errors a storage operation may be rejected with, whatever the query
StorageErrors == {Failure("MongoNetworkError"), Failure("MongoServerError")}

\* a variant of Thrown that wraps the reason in an error of the layer
ThrownMutant(reason) == Failure("QueryError")

\* what an async method without try / catch throws when a promise it awaits is
\* rejected with reason: the reason itself
Thrown(reason) == reason

\* the exec calls es, the one under way having returned or thrown r
Returns(es, r) == [es EXCEPT ![Len(es)].result = r]

\* x as the storage compares it with the document value d: Mongoose casts a
\* numeric string given for a number field to that number, and an identifier
\* string given for an identifier field to that identifier
CastFor(d, x) ==
  IF d.t = "number" /\ x.t = "string" /\ AllDigits(x.v)
  THEN Num(DigitsValue(x.v, 1, Len(x.v) + 1, 0))
  ELSE IF d.t = "ObjectId" /\ x.t = "string" /\ IsValidObjectId(x.v)
  THEN ObjectId(x.v) ELSE x

\* one operator of an operator clause against the document value d
MatchOperator(d, op, x) ==
  CASE op = "$in" -> x.t = "array" /\ \E i \in DOMAIN x.v : CastFor(d, x.v[i]) = d
    [] op = "$nin" -> x.t = "array" /\ \A i \in DOMAIN x.v : CastFor(d, x.v[i]) # d
    [] op = "$ne" -> CastFor(d, x) # d
    [] op = "$gte" -> d.t = "number" /\ CastFor(d, x).t = "number" /\ d.v >= CastFor(d, x).v
    [] op = "$gt" -> d.t = "number" /\ CastFor(d, x).t = "number" /\ d.v > CastFor(d, x).v
    [] op = "$lte" -> d.t = "number" /\ CastFor(d, x).t = "number" /\ d.v <= CastFor(d, x).v
    [] op = "$lt" -> d.t = "number" /\ CastFor(d, x).t = "number" /\ d.v < CastFor(d, x).v
    [] op = "$regex" -> d.t = "string" /\ x.t = "string"
                        /\ Includes(ToLowerCase(d.v), ToLowerCase(x.v))
    [] op = "$options" -> TRUE
    [] OTHER -> FALSE

\* whether document doc satisfies filter flt (a mapping from key to condition)
RECURSIVE Matches(_, _)
Matches(doc, flt) ==
  \A key \in DOMAIN flt :
    LET cond == flt[key]
    IN CASE key = "$and" ->
              cond.t = "array" /\ \A i \in DOMAIN cond.v : Matches(doc, cond.v[i].v)
         [] key = "$or" ->
              cond.t = "array" /\ \E i \in DOMAIN cond.v : Matches(doc, cond.v[i].v)
         [] key = "$text" ->
              \* the text index of the collection is on status
              Includes(doc["status"].v, Prop(cond, "$search").v)
         [] key \notin DOMAIN doc -> FALSE
         [] cond.t = "object" ->
              \A op \in DOMAIN cond.v : MatchOperator(doc[key], op, cond.v[op])
         [] OTHER -> CastFor(doc[key], cond) = doc[key]

\* Model.countDocuments(flt)
CountDocuments(docs, flt) == Cardinality({d \in docs : Matches(d, flt)})

\* a sort specification as the sequence of its <<field, direction>> pairs: the
\* keys of an object in insertion order, or the words of a string ("-f" descending)
SortPairs(sortSpec) ==
  IF sortSpec.t = "string"
  THEN LET words == Split(sortSpec.v, " ")
       IN [i \in DOMAIN words |->
            IF Char(words[i].v, 1) = "-"
            THEN <<SubSeq(words[i].v, 2, Len(words[i].v)), -1>>
            ELSE <<words[i].v, 1>>]
  ELSE sortSpec.v

\* whether document a comes before document b under the pairs ps, from pair i on;
\* documents equal on every pair keep the order of their _id
RECURSIVE Before(_, _, _, _)
Before(a, b, ps, i) ==
  IF i > Len(ps) THEN a["_id"].v < b["_id"].v
  ELSE LET f == ps[i][1]
           x == IF f \in DOMAIN a THEN a[f].v ELSE 0
           y == IF f \in DOMAIN b THEN b[f].v ELSE 0
       IN IF x = y THEN Before(a, b, ps, i + 1)
          ELSE IF ps[i][2] < 0 THEN x > y ELSE x < y

\* the documents docs in the order of the pairs ps
RECURSIVE Sorted(_, _)
Sorted(docs, ps) ==
  IF docs = {} THEN <<>>
  ELSE LET first == CHOOSE a \in docs : \A b \in docs \ {a} : Before(a, b, ps, 1)
       IN <<first>> \o Sorted(docs \ {first}, ps)

\* cursor.skip(skip).limit(lim) on the sequence s: a limit of 0 is no limit, a
\* negative limit is its absolute value
Window(s, skip, lim) ==
  LET n == IF lim < 0 THEN 0 - lim ELSE lim
      last == IF n = 0 \/ skip + n > Len(s) THEN Len(s) ELSE skip + n
  IN SubSeq(s, skip + 1, last)

\* query.select(fields): the named fields and _id; every field for no name
Selected(doc, fields) ==
  IF fields = "" THEN doc
  ELSE LET names == {w.v : w \in {Split(fields, " ")[i] : i \in DOMAIN Split(fields, " ")}}
       IN [k \in (names \cup {"_id"}) \cap DOMAIN doc |-> doc[k]]

\* Model.find(flt).sort(sortSpec).select(fields).skip(skip).limit(lim).exec():
\* the storage refuses a negative skip
Find(docs, flt, sortSpec, fields, skip, lim) ==
  IF skip < 0 THEN Failure("skip must be non-negative")
  ELSE LET found == Sorted({d \in docs : Matches(d, flt)}, SortPairs(sortSpec))
           shown == Window(found, skip, lim)
       IN Arr([i \in DOMAIN shown |-> Selected(shown[i], fields)])

---------------------------------------------------------------------------
(* QueryParser: sort, select, paginate, execute.                           *)

SortObject(pairs) == [t |-> "sortobject", v |-> pairs]

\* sortObj[field] = direction, on the pairs of sortObj in insertion order
Assign(pairs, field, direction) ==
  IF \E i \in DOMAIN pairs : pairs[i][1] = field
  THEN [i \in DOMAIN pairs |->
         IF pairs[i][1] = field THEN <<field, direction>> ELSE pairs[i]]
  ELSE Append(pairs, <<field, direction>>)

\* sortPairs.forEach(pair => { sortObj[field] = parseInt(direction) || 1 })
RECURSIVE SortObjectOf(_, _)
SortObjectOf(sortPairs, sortObj) ==
  IF Len(sortPairs) = 0 THEN sortObj
  ELSE LET parts == Split(sortPairs[1].v, ":")
           field == parts[1].v
           direction == IF Len(parts) >= 2 THEN parts[2] ELSE Undef
       IN SortObjectOf(Tail(sortPairs),
                       Assign(sortObj, field, OrElse(ParseInt(direction), Num(1)).v))

\* sort with the default of ascending creation
sortMutant(q) ==
  IF Truthy(Get(q, "sort"))
  THEN LET sortBy == Join(Split(q["sort"].v, ","), " ")
       IN IF Includes(sortBy, ":")
          THEN SortObject(SortObjectOf(Split(sortBy, " "), <<>>))
          ELSE Str(sortBy)
  ELSE SortObject(<< <<"createdAt", 1>> >>)

\* the sortOptions that sort() leaves for the raw query q
sort(q) ==
  IF Truthy(Get(q, "sort"))
  THEN LET sortBy == Join(Split(q["sort"].v, ","), " ")
       IN IF Includes(sortBy, ":")
          THEN SortObject(SortObjectOf(Split(sortBy, " "), <<>>))
          ELSE Str(sortBy)
  ELSE SortObject(<< <<"createdAt", -1>> >>)

\* the selectFields that select() leaves for the raw query q
select(q) ==
  IF Truthy(Get(q, "fields")) THEN Join(Split(q["fields"].v, ","), " ") ELSE ""

\* paginate with the skip of page * limit
paginateMutant(q) ==
  LET p == OrElse(ParseInt(Get(q, "page")), Num(1))
      l == OrElse(ParseInt(Get(q, "limit")), Num(10))
  IN [page |-> p, limit |-> MathMin(l, Num(100)), skip |-> JsTimes(p, l)]

\* the paginationOptions that paginate() leaves for the raw query q
paginate(q) ==
  LET p == OrElse(ParseInt(Get(q, "page")), Num(1))
      l == OrElse(ParseInt(Get(q, "limit")), Num(10))
      skip == JsTimes(JsMinus(p, Num(1)), l)
  IN [page |-> p, limit |-> MathMin(l, Num(100)), skip |-> skip]

\* the metadata with hasNext true on the last page too
executePaginationMutant(po, count) ==
  [page |-> po.page,
   limit |-> po.limit,
   total |-> count,
   pages |-> CeilDiv(count, po.limit),
   hasNext |-> ~JsGreater(po.page, CeilDiv(count, po.limit)),
   hasPrev |-> JsGreater(po.page, Num(1))]

\* the pagination metadata of execute
executePagination(po, count) ==
  [page |-> po.page,
   limit |-> po.limit,
   total |-> count,
   pages |-> CeilDiv(count, po.limit),
   hasNext |-> JsLess(po.page, CeilDiv(count, po.limit)),
   hasPrev |-> JsGreater(po.page, Num(1))]

QueryParser_filter ==
  /\ cls = "QueryParser" /\ pc = "new"
  /\ mongoQuery' = filter(query)
  /\ pc' = "filtered"
  /\ UNCHANGED <<userId, cls, coll, query, sortOptions, selectFields, paginationOptions,
                 pipeline, page, limit, paginateArg, data, total, result,
                 session, aggSession, countSession, matchArg, sortArg, isValidTwelve,
                 storageLog, execs, execsLeft>>

QueryParser_sort ==
  /\ cls = "QueryParser" /\ pc = "filtered"
  /\ sortOptions' = sort(query)
  /\ pc' = "sorted"
  /\ UNCHANGED <<userId, cls, coll, query, mongoQuery, selectFields, paginationOptions,
                 pipeline, page, limit, paginateArg, data, total, result,
                 session, aggSession, countSession, matchArg, sortArg, isValidTwelve,
                 storageLog, execs, execsLeft>>

QueryParser_select ==
  /\ cls = "QueryParser" /\ pc = "sorted"
  /\ selectFields' = select(query)
  /\ pc' = "selected"
  /\ UNCHANGED <<userId, cls, coll, query, mongoQuery, sortOptions, paginationOptions,
                 pipeline, page, limit, paginateArg, data, total, result,
                 session, aggSession, countSession, matchArg, sortArg, isValidTwelve,
                 storageLog, execs, execsLeft>>

QueryParser_paginate ==
  /\ cls = "QueryParser" /\ pc = "selected"
  /\ paginationOptions' = paginate(query)
  /\ pc' = "paginated"
  /\ UNCHANGED <<userId, cls, coll, query, mongoQuery, sortOptions, selectFields,
                 pipeline, page, limit, paginateArg, data, total, result,
                 session, aggSession, countSession, matchArg, sortArg, isValidTwelve,
                 storageLog, execs, execsLeft>>

\* a variant of executeOperations that counts once more
executeOperationsMutant ==
  << Event("find", "issued"), Event("countDocuments", "issued"),
     Event("countDocuments", "issued") >>

\* the operations the array given to Promise.all issues, in its order
executeOperations ==
  << Event("find", "issued"), Event("countDocuments", "issued") >>

\* execute, to its await: the query is built and both operations are issued
QueryParser_execute ==
  /\ cls = "QueryParser" /\ pc = "paginated"
  /\ data' = Pending /\ total' = Pending
  /\ storageLog' = executeOperations
  /\ pc' = "executing"
  /\ UNCHANGED <<userId, cls, coll, query, mongoQuery, sortOptions, selectFields,
                 paginationOptions, pipeline, page, limit, paginateArg, result,
                 session, aggSession, countSession, matchArg, sortArg, isValidTwelve,
                 execs, execsLeft>>

\* query.exec() is answered by the storage
QueryParser_exec ==
  /\ cls = "QueryParser" /\ pc = "executing" /\ data = Pending
  /\ data' = Find(coll, mongoQuery, sortOptions, selectFields,
                  paginationOptions.skip.v, paginationOptions.limit.v)
  /\ storageLog' = Append(storageLog, Event("find", Outcome(data')))
  /\ UNCHANGED <<userId, cls, pc, coll, query, mongoQuery, sortOptions, selectFields,
                 paginationOptions, pipeline, page, limit, paginateArg,
                 total, result,
                 session, aggSession, countSession, matchArg, sortArg, isValidTwelve,
                 execs, execsLeft>>

\* Model.countDocuments(options.filter) is answered by the storage
QueryParser_countDocuments ==
  /\ cls = "QueryParser" /\ pc = "executing" /\ total = Pending
  /\ total' = Num(CountDocuments(coll, mongoQuery))
  /\ storageLog' = Append(storageLog, Event("countDocuments", Outcome(total')))
  /\ UNCHANGED <<userId, cls, pc, coll, query, mongoQuery, sortOptions, selectFields,
                 paginationOptions, pipeline, page, limit, paginateArg,
                 data, result,
                 session, aggSession, countSession, matchArg, sortArg, isValidTwelve,
                 execs, execsLeft>>

\* query.exec() is rejected by the storage
QueryParser_execRejected ==
  /\ cls = "QueryParser" /\ pc = "executing" /\ data = Pending
  /\ data' \in StorageErrors
  /\ storageLog' = Append(storageLog, Event("find", "rejected"))
  /\ UNCHANGED <<userId, cls, coll, query, mongoQuery, sortOptions, selectFields,
                 paginationOptions, pipeline, page, limit, paginateArg,
                 pc, total, result,
                 session, aggSession, countSession, matchArg, sortArg, isValidTwelve,
                 execs, execsLeft>>

\* Model.countDocuments(options.filter) is rejected by the storage
QueryParser_countDocumentsRejected ==
  /\ cls = "QueryParser" /\ pc = "executing" /\ total = Pending
  /\ total' \in StorageErrors
  /\ storageLog' = Append(storageLog, Event("countDocuments", "rejected"))
  /\ UNCHANGED <<userId, cls, coll, query, mongoQuery, sortOptions, selectFields,
                 paginationOptions, pipeline, page, limit, paginateArg,
                 pc, data, result,
                 session, aggSession, countSession, matchArg, sortArg, isValidTwelve,
                 execs, execsLeft>>

\* another client of the storage inserts a document while execute is suspended
\* at its await
Model_insertOne ==
  /\ cls = "QueryParser" /\ pc = "executing"
  /\ \E i \in 1..MaxJoinDocs : Doc(i) \notin coll /\ coll' = coll \cup {Doc(i)}
  /\ UNCHANGED <<userId, cls, pc, query, mongoQuery, sortOptions, selectFields,
                 paginationOptions, pipeline, page, limit, paginateArg,
                 data, total, result,
                 session, aggSession, countSession, matchArg, sortArg, isValidTwelve,
                 storageLog, execs, execsLeft>>

\* another client of the storage deletes a document while execute is suspended
\* at its await
Model_deleteOne ==
  /\ cls = "QueryParser" /\ pc = "executing"
  /\ \E d \in coll : coll' = coll \ {d}
  /\ UNCHANGED <<userId, cls, pc, query, mongoQuery, sortOptions, selectFields,
                 paginationOptions, pipeline, page, limit, paginateArg,
                 data, total, result,
                 session, aggSession, countSession, matchArg, sortArg, isValidTwelve,
                 storageLog, execs, execsLeft>>

\* Promise.all settles and execute returns, or throws what the storage threw
QueryParser_return ==
  /\ cls = "QueryParser" /\ pc = "executing"
  /\ \/ Rejections(storageLog) # <<>>
     \/ data # Pending /\ total # Pending
  /\ IF Rejections(storageLog) # <<>>
     THEN /\ pc' = "failed"
          /\ result' = Thrown(IF Head(Rejections(storageLog)).op = "find"
                               THEN data ELSE total)
     ELSE /\ pc' = "done"
          /\ result' = [data |-> data.v,
                        pagination |-> executePagination(paginationOptions, total)]
  /\ UNCHANGED <<userId, cls, coll, query, mongoQuery, sortOptions, selectFields,
                 paginationOptions, pipeline, page, limit, paginateArg,
                 data, total,
                 session, aggSession, countSession, matchArg, sortArg, isValidTwelve,
                 storageLog, execs, execsLeft>>

---------------------------------------------------------------------------
(* Aggregation pipelines.                                                  *)

\* the stage { [op]: arg }
Stage(op, arg) == [op |-> op, arg |-> arg]

\* p[op] of a stage p
StageProp(p, op) == IF p.op = op THEN p.arg ELSE Undef

\* this.pipeline.find(p => p[op])?.[op]
FindStage(stages, op) ==
  IF \E i \in DOMAIN stages : Truthy(StageProp(stages[i], op))
  THEN LET i == CHOOSE k \in DOMAIN stages :
                  /\ Truthy(StageProp(stages[k], op))
                  /\ \A j \in 1..(k - 1) : ~Truthy(StageProp(stages[j], op))
       IN stages[i].arg
  ELSE Undef

\* the documents of the sequence s that satisfy flt, in the order of s
RECURSIVE Filtered(_, _)
Filtered(s, flt) ==
  IF Len(s) = 0 THEN <<>>
  ELSE (IF Matches(Head(s), flt) THEN <<Head(s)>> ELSE <<>>) \o Filtered(Tail(s), flt)

\* the sequence s in the order of the pairs ps; rows equal on every pair and on
\* _id keep their order
RECURSIVE SortedSeq(_, _)
SortedSeq(s, ps) ==
  IF Len(s) = 0 THEN <<>>
  ELSE LET rest == SortedSeq(SubSeq(s, 1, Len(s) - 1), ps)
           x == s[Len(s)]
           k == Cardinality({i \in DOMAIN rest : ~Before(x, rest[i], ps, 1)})
       IN SubSeq(rest, 1, k) \o <<x>> \o SubSeq(rest, k + 1, Len(rest))

\* the orders collection a $lookup joins: the document with _id 1 owns no
\* order, the one with _id 2 owns one, the one with _id 3 owns two
Orders ==
  {("_id" :> Num(j)) @@ ("userId" :> Num(IF j = 1 THEN 2 ELSE 3)) : j \in 1..3}

\* the collection named from
Foreign(from) == IF from = Str("orders") THEN Orders ELSE {}

\* { $lookup: cfg } on one document: the field cfg.as holds the array of the
\* documents of cfg.from whose cfg.foreignField equals the document's cfg.localField
LookupDoc(doc, cfg) ==
  LET related == {o \in Foreign(Prop(cfg, "from")) :
                    Get(o, Prop(cfg, "foreignField").v) = Get(doc, Prop(cfg, "localField").v)}
      joined == Sorted(related, <<>>)
  IN Put(doc, Prop(cfg, "as").v, Arr([i \in DOMAIN joined |-> Obj(joined[i])]))

\* { $unwind: cfg } on one document: one row for each element of the array at
\* cfg.path; for an empty array or no value the document is dropped, or with
\* preserveNullAndEmptyArrays kept without the field
UnwindDoc(doc, cfg) ==
  LET path == IF cfg.t = "string" THEN cfg.v ELSE Prop(cfg, "path").v
      field == SubSeq(path, 2, Len(path))
      preserve == Truthy(Prop(cfg, "preserveNullAndEmptyArrays"))
      value == Get(doc, field)
  IN IF value.t = "array" /\ Len(value.v) > 0
     THEN [i \in DOMAIN value.v |-> Put(doc, field, value.v[i])]
     ELSE IF value.t = "array"
          THEN (IF preserve THEN << [k \in DOMAIN doc \ {field} |-> doc[k]] >> ELSE <<>>)
     ELSE IF value.t \in {"undefined", "null"}
          THEN (IF preserve THEN <<doc>> ELSE <<>>)
     ELSE <<doc>>

RECURSIVE Unwound(_, _)
Unwound(s, cfg) ==
  IF Len(s) = 0 THEN <<>> ELSE UnwindDoc(Head(s), cfg) \o Unwound(Tail(s), cfg)

\* { $addFields: fields } on one document, for fields given as literals
WithFields(doc, fields) ==
  [k \in DOMAIN doc \cup DOMAIN fields |-> IF k \in DOMAIN fields THEN fields[k] ELSE doc[k]]

\* { $project: fields } on one document, for an inclusion: the fields named
\* with 1, and _id
Projected(doc, fields) ==
  [k \in ({f \in DOMAIN fields : Truthy(fields[f])} \cup {"_id"}) \cap DOMAIN doc |-> doc[k]]

\* Model.aggregate(stages).exec() on the sequence s: the storage refuses a $skip
\* that is not a number >= 0 and a $limit that is not a number > 0
RECURSIVE Aggregate(_, _)
Aggregate(s, stages) ==
  IF Len(stages) = 0 THEN Arr(s)
  ELSE LET st == Head(stages)
       IN CASE st.op = "$match" -> Aggregate(Filtered(s, st.arg.v), Tail(stages))
            [] st.op = "$sort" -> Aggregate(SortedSeq(s, SortPairs(st.arg)), Tail(stages))
            [] st.op = "$lookup" ->
                 Aggregate([i \in DOMAIN s |-> LookupDoc(s[i], st.arg)], Tail(stages))
            [] st.op = "$unwind" -> Aggregate(Unwound(s, st.arg), Tail(stages))
            [] st.op = "$addFields" ->
                 Aggregate([i \in DOMAIN s |-> WithFields(s[i], st.arg.v)], Tail(stages))
            [] st.op = "$project" ->
                 Aggregate([i \in DOMAIN s |-> Projected(s[i], st.arg.v)], Tail(stages))
            [] st.op = "$skip" ->
                 IF st.arg.t = "number" /\ st.arg.v >= 0
                 THEN Aggregate(SubSeq(s, st.arg.v + 1, Len(s)), Tail(stages))
                 ELSE Failure("$skip must be a non-negative number")
            [] st.op = "$limit" ->
                 IF st.arg.t = "number" /\ st.arg.v > 0
                 THEN Aggregate(Window(s, 0, st.arg.v), Tail(stages))
                 ELSE Failure("$limit must be a positive number")
            [] OTHER -> Failure("unrecognized pipeline stage")

\* the documents of the collection in their natural order
Natural(docs) == Sorted(docs, <<>>)

\* the count taken with the empty filter
CountFilterMutant(stages) == EmptyObj.v

\* the filter exec counts with: matchStage?.$match || {}
CountFilter(stages) == OrElse(FindStage(stages, "$match"), EmptyObj).v

---------------------------------------------------------------------------
(* QueryConfig.build.                                                      *)

\* a destructured option with its default
Option(o, k, default) == IF Get(o, k).t = "undefined" THEN default ELSE o[k]

\* QueryConfig.toObjectId
toObjectId(value) ==
  IF value.t = "string" /\ IsValidObjectId(value.v) THEN ObjectId(value.v)
  ELSE IF value.t = "number" THEN Str(IntToString(value.v))
  ELSE value

\* parseFloat(value), on the whole numbers of the model: an array is read
\* through its string, which starts with its first element
ParseFloat(value) ==
  IF value.t = "array"
  THEN (IF Len(value.v) > 0 THEN ParseInt(value.v[1]) ELSE NaN)
  ELSE ParseInt(value)

\* a variant of IsAllowed that lets every name through
IsAllowedMutant(name, allowedFields) == TRUE

\* !(allowed.size > 0 && !allowed.has(name)), allowed being new Set(allowedFields)
IsAllowed(name, allowedFields) ==
  LET allowed == {allowedFields[i] : i \in DOMAIN allowedFields}
  IN ~(allowed # {} /\ name \notin allowed)

\* what one item of query_data pushes to filters: nothing, or one filter
ItemFilters(item, allowedFields) ==
  LET name == Prop(item, "name")
      value == Prop(item, "value")
      type == Prop(item, "type")
      operator == Prop(item, "operator")
      op == "$" \o OrElse(operator, Str("eq")).v
  IN IF ~Truthy(name) \/ value.t \in {"undefined", "null"} \/ value = Str("")
     THEN <<>>
     ELSE IF ~IsAllowed(name, allowedFields) THEN <<>>
     ELSE CASE type = Str("select") ->
                 << Obj(name.v :>
                     (IF value.t = "array"
                      THEN Obj("$in" :> Arr([i \in DOMAIN value.v |-> toObjectId(value.v[i])]))
                      ELSE toObjectId(value))) >>
            [] type = Str("number") -> << Obj(name.v :> Obj(op :> ParseFloat(value))) >>
            [] type = Str("date") ->
                 << Obj(name.v :> Obj(op :> DateV(IF value.t = "string" THEN value.v ELSE ""))) >>
            [] type = Str("array") ->
                 << Obj(name.v :>
                     Obj((IF operator = Str("nin") THEN "$nin" ELSE "$in") :>
                         (IF value.t = "array" THEN value ELSE Arr(<<value>>)))) >>
            [] type = Str("exists") -> << Obj(name.v :> Obj("$exists" :> Bool(Truthy(value)))) >>
            [] type = Str("range") ->
                 IF value.t = "array" /\ Len(value.v) = 2
                 THEN << Obj(name.v :> Obj(("$gte" :> value.v[1]) @@ ("$lte" :> value.v[2]))) >>
                 ELSE <<>>
            [] OTHER -> <<>>

\* the filters the loop over query_data pushes, in order
RECURSIVE ItemsFilters(_, _)
ItemsFilters(items, allowedFields) ==
  IF Len(items) = 0 THEN <<>>
  ELSE ItemFilters(Head(items), allowedFields) \o ItemsFilters(Tail(items), allowedFields)

\* QueryConfig.build(o)
build(o) ==
  LET q == Option(o, "q", Str(""))
      query_data == Option(o, "query_data", Arr(<<>>))
      sortBy == Option(o, "sortBy", Str("createdAt"))
      sortOrder == Option(o, "sortOrder", Str("desc"))
      regexFields == Option(o, "regexFields", Arr(<<>>))
      allowedFields == Option(o, "allowedFields", Arr(<<>>))
      search ==
        IF Truthy(q) /\ Len(q.v) > 0 /\ Len(regexFields.v) > 0
        THEN << Obj("$or" :> Arr([i \in DOMAIN regexFields.v |->
                  Obj(regexFields.v[i].v :>
                      Obj(("$regex" :> q) @@ ("$options" :> Str("i"))))])) >>
        ELSE <<>>
      filters == search \o ItemsFilters(query_data.v, allowedFields.v)
  IN [filters |-> IF Len(filters) > 0
                  THEN << Stage("$match", Obj("$and" :> Arr(filters))) >>
                  ELSE <<>>,
      page |-> OrElse(ParseInt(Option(o, "page", Num(1))), Num(1)),
      limit |-> MathMin(OrElse(ParseInt(Option(o, "limit", Num(5))), Num(20)), Num(100)),
      sort |-> SortObject(<< <<sortBy.v, IF sortOrder = Str("desc") THEN -1 ELSE 1>> >>),
      timezone |-> Option(o, "timezone", Str("UTC"))]

QueryConfig_build ==
  /\ cls = "QueryConfig" /\ pc = "new"
  /\ result' = build(query)
  /\ pc' = "done"
  /\ UNCHANGED <<userId, cls, coll, query, mongoQuery, sortOptions, selectFields,
                 paginationOptions, pipeline, page, limit, paginateArg, data, total,
                 session, aggSession, countSession, matchArg, sortArg, isValidTwelve,
                 storageLog, execs, execsLeft>>

---------------------------------------------------------------------------
(* The arguments callers pass.                                             *)

\* numbers of pages and of records per page a caller may ask for
PageNumbers == -1..MaxPageArg
LimitNumbers == (-1..MaxLimitArg) \cup {100, 101, 250}

\* page and limit as they arrive in a query string, or not at all
PageArgs == {Undef, Str("abc"), Str("")} \cup {Str(IntToString(n)) : n \in PageNumbers}
LimitArgs == {Undef, Str("abc")} \cup {Str(IntToString(n)) : n \in LimitNumbers}

ActiveFilter == Obj("status" :> Str("active"))
PriceFilter == Obj("price" :> Num(10))

\* what callers pass to setMatchStages and, as fetchUsers does, to match: a list
\* of $match stages, of none, one or two
MatchStageLists ==
  {Arr(<<>>), Arr(<< Stage("$match", ActiveFilter) >>),
   Arr(<< Stage("$match", ActiveFilter), Stage("$match", PriceFilter) >>)}

\* what callers pass to match: a list of stages, or as the usage example of the
\* class does a filter object
MatchArgs == MatchStageLists \cup {ActiveFilter}

\* filters.length
LengthOf(x) == IF x.t \in {"array", "string"} THEN Num(Len(x.v)) ELSE Undef

\* what callers pass to sortBy / setSort
SortArgs == {SortObject(<<>>), SortObject(<< <<"createdAt", 1>> >>)}

\* the join of the usage example: the orders of a user, as the field orders
OrdersLookup ==
  Obj([from |-> Str("orders"), localField |-> Str("_id"),
       foreignField |-> Str("userId"), as |-> Str("orders")])

\* what callers pass to lookup
LookupArgs == {OrdersLookup}

\* what callers pass to unwind after the lookup
UnwindArgs ==
  {Obj([path |-> Str("$orders"), preserveNullAndEmptyArrays |-> Bool(TRUE)])}

\* what callers pass to addLookups: no join, the join, the join with unwind
LookupsArgs ==
  {Arr(<<>>), Arr(<< OrdersLookup >>),
   Arr(<< Obj(Put(OrdersLookup.v, "unwind", Bool(TRUE))) >>)}

\* what callers pass to addFields and to project / addProject
AddFieldsArgs == {EmptyObj, Obj([is_flagged |-> Bool(FALSE)])}
ProjectArgs == {EmptyObj, Obj([status |-> Num(1)])}

\* Object.keys(x).length of a mapping
KeyCount(x) == Cardinality(DOMAIN x.v)

\* the session handles callers attach
Sessions == {Null, Str("s1"), Str("s2")}

---------------------------------------------------------------------------
(* UniversalQueryBuilder.                                                  *)

UniversalQueryBuilder_match ==
  /\ cls = "UniversalQueryBuilder" /\ pc = "new"
  /\ \E filters \in MatchArgs :
       /\ matchArg' = filters
       /\ pipeline' = IF Truthy(filters) /\ JsGreater(LengthOf(filters), Num(0))
                       THEN pipeline \o filters.v ELSE pipeline
  /\ pc' = "matched"
  /\ UNCHANGED <<userId, cls, coll, query, mongoQuery, sortOptions, selectFields,
                 paginationOptions, page, limit, paginateArg, data, total, result,
                 session, aggSession, countSession, sortArg, isValidTwelve,
                 storageLog, execs, execsLeft>>

UniversalQueryBuilder_sortBy ==
  /\ cls = "UniversalQueryBuilder"
  /\ pc \in {"new", "matched", "joined", "unwound", "computed"}
  /\ \E sortSpec \in SortArgs :
       /\ sortArg' = sortSpec
       /\ pipeline' = IF Len(sortSpec.v) > 0
                       THEN Append(pipeline, Stage("$sort", sortSpec)) ELSE pipeline
  /\ pc' = "sorted"
  /\ UNCHANGED <<userId, cls, coll, query, mongoQuery, sortOptions, selectFields,
                 paginationOptions, page, limit, paginateArg, data, total, result,
                 session, aggSession, countSession, matchArg, isValidTwelve,
                 storageLog, execs, execsLeft>>

UniversalQueryBuilder_setSession ==
  /\ cls = "UniversalQueryBuilder" /\ pc \notin {"done", "failed"}
  /\ \E handle \in Sessions : session' = handle
  /\ UNCHANGED <<userId, cls, pc, coll, query, mongoQuery, sortOptions, selectFields,
                 paginationOptions, pipeline, page, limit, paginateArg, data, total,
                 result, aggSession, countSession, matchArg, sortArg, isValidTwelve,
                 storageLog, execs, execsLeft>>

UniversalQueryBuilder_lookup ==
  /\ cls = "UniversalQueryBuilder" /\ pc \in {"new", "matched"}
  /\ \E lookupConfig \in LookupArgs :
       pipeline' = Append(pipeline, Stage("$lookup", lookupConfig))
  /\ pc' = "joined"
  /\ UNCHANGED <<userId, cls, coll, query, mongoQuery, sortOptions, selectFields,
                 paginationOptions, page, limit, paginateArg, data, total, result,
                 session, aggSession, countSession, matchArg, sortArg, isValidTwelve,
                 storageLog, execs, execsLeft>>

UniversalQueryBuilder_unwind ==
  /\ cls = "UniversalQueryBuilder" /\ pc = "joined"
  /\ \E unwindConfig \in UnwindArgs :
       pipeline' = Append(pipeline, Stage("$unwind", unwindConfig))
  /\ pc' = "unwound"
  /\ UNCHANGED <<userId, cls, coll, query, mongoQuery, sortOptions, selectFields,
                 paginationOptions, page, limit, paginateArg, data, total, result,
                 session, aggSession, countSession, matchArg, sortArg, isValidTwelve,
                 storageLog, execs, execsLeft>>

UniversalQueryBuilder_addFields ==
  /\ cls = "UniversalQueryBuilder" /\ pc \in {"new", "matched", "joined", "unwound"}
  /\ \E fields \in AddFieldsArgs :
       pipeline' = IF Truthy(fields) /\ KeyCount(fields) > 0
                   THEN Append(pipeline, Stage("$addFields", fields)) ELSE pipeline
  /\ pc' = "computed"
  /\ UNCHANGED <<userId, cls, coll, query, mongoQuery, sortOptions, selectFields,
                 paginationOptions, page, limit, paginateArg, data, total, result,
                 session, aggSession, countSession, matchArg, sortArg, isValidTwelve,
                 storageLog, execs, execsLeft>>

UniversalQueryBuilder_project ==
  /\ cls = "UniversalQueryBuilder"
  /\ pc \in {"new", "matched", "joined", "unwound", "computed", "sorted", "paginated"}
  /\ \E fields \in ProjectArgs :
       pipeline' = IF Truthy(fields) /\ KeyCount(fields) > 0
                   THEN Append(pipeline, Stage("$project", fields)) ELSE pipeline
  /\ pc' = "projected"
  /\ UNCHANGED <<userId, cls, coll, query, mongoQuery, sortOptions, selectFields,
                 paginationOptions, page, limit, paginateArg, data, total, result,
                 session, aggSession, countSession, matchArg, sortArg, isValidTwelve,
                 storageLog, execs, execsLeft>>

\* the stages paginate(pageArg, limitArg) pushes
paginateStages(pageArg, limitArg) ==
  LET skip == JsTimes(JsMinus(pageArg, Num(1)), limitArg)
  IN << Stage("$skip", skip), Stage("$limit", limitArg) >>

UniversalQueryBuilder_paginate ==
  /\ cls = "UniversalQueryBuilder"
  /\ pc \in {"new", "matched", "joined", "unwound", "computed", "sorted"}
  /\ \E p \in PageNumbers, l \in LimitNumbers :
       pipeline' = pipeline \o paginateStages(Num(p), Num(l))
  /\ pc' = "paginated"
  /\ UNCHANGED <<userId, cls, coll, query, mongoQuery, sortOptions, selectFields,
                 paginationOptions, page, limit, paginateArg, data, total, result,
                 session, aggSession, countSession, matchArg, sortArg, isValidTwelve,
                 storageLog, execs, execsLeft>>

\* exec(paginate), to its first await: aggregate() is issued, under this.session
UniversalQueryBuilder_exec ==
  /\ cls = "UniversalQueryBuilder"
  /\ pc \in {"new", "matched", "joined", "unwound", "computed", "sorted", "paginated",
             "projected", "done"}
  /\ execsLeft > 0
  /\ paginateArg' \in BOOLEAN
  /\ data' = Pending
  /\ aggSession' = session
  /\ storageLog' = << Event("aggregate", "issued") >>
  /\ execs' = Append(execs, [pipeline |-> pipeline, paginate |-> paginateArg',
                             result |-> Pending])
  /\ execsLeft' = execsLeft - 1
  /\ pc' = "aggregating"
  /\ UNCHANGED <<userId, cls, coll, query, mongoQuery, sortOptions, selectFields,
                 paginationOptions, pipeline, page, limit, total, result,
                 session, countSession, matchArg, sortArg, isValidTwelve>>

\* the pagination object of UniversalQueryBuilder.exec
queryBuilderPagination(stages, count) ==
  LET p == OrElse(JsPlus(JsDivide(FindStage(stages, "$skip"), FindStage(stages, "$limit")),
                         Num(1)),
                  Num(1))
      l == OrElse(FindStage(stages, "$limit"), Num(20))
  IN [page |-> p,
      limit |-> l,
      total |-> count,
      pages |-> CeilDiv(count, l),
      hasNext |-> JsLess(JsTimes(p, l), count),
      hasPrev |-> JsGreater(p, Num(1))]

\* the aggregation is answered; exec goes on to the count, issued under
\* this.session as it is now, or returns
UniversalQueryBuilder_aggregate ==
  /\ cls = "UniversalQueryBuilder" /\ pc = "aggregating"
  /\ data' = Aggregate(Natural(coll), pipeline)
  /\ IF data'.t = "error"
     THEN /\ pc' = "failed" /\ result' = Thrown(data') /\ countSession' = countSession
          /\ storageLog' = Append(storageLog, Event("aggregate", "rejected"))
          /\ execs' = Returns(execs, result')
     ELSE IF paginateArg
     THEN /\ pc' = "counting" /\ result' = result /\ countSession' = session
          /\ storageLog' = storageLog \o << Event("aggregate", "fulfilled"),
                                            Event("countDocuments", "issued") >>
          /\ execs' = execs
     ELSE /\ pc' = "done" /\ result' = [data |-> data'.v, pagination |-> Null]
          /\ countSession' = countSession
          /\ storageLog' = Append(storageLog, Event("aggregate", "fulfilled"))
          /\ execs' = Returns(execs, result')
  /\ UNCHANGED <<userId, cls, coll, query, mongoQuery, sortOptions, selectFields,
                 paginationOptions, pipeline, page, limit, paginateArg, total,
                 session, aggSession, matchArg, sortArg, isValidTwelve, execsLeft>>

\* the count is answered and exec returns
UniversalQueryBuilder_countDocuments ==
  /\ cls = "UniversalQueryBuilder" /\ pc = "counting"
  /\ total' = Num(CountDocuments(coll, CountFilter(pipeline)))
  /\ result' = [data |-> data.v, pagination |-> queryBuilderPagination(pipeline, total')]
  /\ storageLog' = Append(storageLog, Event("countDocuments", "fulfilled"))
  /\ execs' = Returns(execs, result')
  /\ pc' = "done"
  /\ UNCHANGED <<userId, cls, coll, query, mongoQuery, sortOptions, selectFields,
                 paginationOptions, pipeline, page, limit, paginateArg, data,
                 session, aggSession, countSession, matchArg, sortArg, isValidTwelve,
                 execsLeft>>

\* the aggregation is rejected by the storage and exec throws
UniversalQueryBuilder_aggregateRejected ==
  /\ cls = "UniversalQueryBuilder" /\ pc = "aggregating"
  /\ data' \in StorageErrors
  /\ result' = Thrown(data')
  /\ storageLog' = Append(storageLog, Event("aggregate", "rejected"))
  /\ execs' = Returns(execs, result')
  /\ pc' = "failed"
  /\ UNCHANGED <<userId, cls, coll, query, mongoQuery, sortOptions, selectFields,
                 paginationOptions, pipeline, page, limit, paginateArg,
                 total,
                 session, aggSession, countSession, matchArg, sortArg, isValidTwelve,
                 execsLeft>>

\* the count is rejected by the storage and exec throws
UniversalQueryBuilder_countDocumentsRejected ==
  /\ cls = "UniversalQueryBuilder" /\ pc = "counting"
  /\ total' \in StorageErrors
  /\ result' = Thrown(total')
  /\ storageLog' = Append(storageLog, Event("countDocuments", "rejected"))
  /\ execs' = Returns(execs, result')
  /\ pc' = "failed"
  /\ UNCHANGED <<userId, cls, coll, query, mongoQuery, sortOptions, selectFields,
                 paginationOptions, pipeline, page, limit, paginateArg,
                 data,
                 session, aggSession, countSession, matchArg, sortArg, isValidTwelve,
                 execsLeft>>

---------------------------------------------------------------------------
(* UserService, as it lists users through QueryConfig and the builder.     *)

\* the options getUsers gives to fetchUsers: QueryConfig.build({ ...query,
\* allowedFields: [], regexFields: ['name', 'email'] }) after it has set
\* query.query_data = []
getUsersOptions(q) ==
  build(Put(Put(Put(q, "query_data", Arr(<<>>)), "allowedFields", Arr(<<>>)),
            "regexFields", Arr(<< Str("name"), Str("email") >>)))

\* the left join of fetchUsers with the collection from: $lookup, then $unwind
\* with preserveNullAndEmptyArrays
LeftJoin(from, localField, foreignField, as) ==
  << Stage("$lookup", Obj([from |-> Str(from), localField |-> Str(localField),
                           foreignField |-> Str(foreignField), as |-> Str(as)])),
     Stage("$unwind", Obj([path |-> Str("$" \o as),
                           preserveNullAndEmptyArrays |-> Bool(TRUE)])) >>

\* the pipeline fetchUsers builds from its options; of the computed fields and
\* of the projection it holds the literal and the fields the documents here have
fetchUsersPipeline(o) ==
  (IF Len(o.filters) > 0 THEN o.filters ELSE <<>>) \o
  LeftJoin("addresses", "address_id", "_id", "addressObj") \o
  LeftJoin("companies", "company_id", "_id", "companyObj") \o
  LeftJoin("notificationpreferences", "_id", "user", "notificationPreferences") \o
  << Stage("$addFields", Obj([is_flagged |-> Bool(FALSE)])) >> \o
  (IF Len(o.sort.v) > 0 THEN << Stage("$sort", o.sort) >> ELSE <<>>) \o
  paginateStages(o.page, o.limit) \o
  << Stage("$project", Obj([role |-> Num(1), status |-> Num(1), createdAt |-> Num(1),
                            is_flagged |-> Num(1)])) >>

\* getUsers(query), to the first await of the exec(true) that fetchUsers calls
\* on the builder it made: from here on the object under way is that builder
UserService_getUsers ==
  /\ cls = "UserService" /\ pc = "new"
  /\ execsLeft > 0
  /\ pipeline' = fetchUsersPipeline(getUsersOptions(query))
  /\ session' = Null
  /\ paginateArg' = TRUE
  /\ data' = Pending
  /\ aggSession' = Null
  /\ storageLog' = << Event("aggregate", "issued") >>
  /\ execs' = Append(execs, [pipeline |-> pipeline', paginate |-> TRUE,
                             result |-> Pending])
  /\ execsLeft' = execsLeft - 1
  /\ cls' = "UniversalQueryBuilder"
  /\ pc' = "aggregating"
  /\ UNCHANGED <<userId, coll, query, mongoQuery, sortOptions, selectFields,
                 paginationOptions, page, limit, total, result,
                 countSession, matchArg, sortArg, isValidTwelve>>

---------------------------------------------------------------------------
(* UniversalPipelineBuilder.                                               *)

UniversalPipelineBuilder_setMatchStages ==
  /\ cls = "UniversalPipelineBuilder" /\ pc = "new"
  /\ \E matchStages \in MatchStageLists :
       /\ matchArg' = matchStages
       /\ pipeline' = pipeline \o matchStages.v
  /\ pc' = "matched"
  /\ UNCHANGED <<userId, cls, coll, query, mongoQuery, sortOptions, selectFields,
                 paginationOptions, page, limit, paginateArg, data, total, result,
                 session, aggSession, countSession, sortArg, isValidTwelve,
                 storageLog, execs, execsLeft>>

UniversalPipelineBuilder_setSession ==
  /\ cls = "UniversalPipelineBuilder" /\ pc \notin {"done", "failed"}
  /\ \E handle \in Sessions : session' = handle
  /\ UNCHANGED <<userId, cls, pc, coll, query, mongoQuery, sortOptions, selectFields,
                 paginationOptions, pipeline, page, limit, paginateArg, data, total,
                 result, aggSession, countSession, matchArg, sortArg, isValidTwelve,
                 storageLog, execs, execsLeft>>

\* the stages addLookups(lookups) pushes: each $lookup, and after it with
\* unwind the $unwind that keeps the documents without a match
RECURSIVE lookupStages(_)
lookupStages(lookups) ==
  IF Len(lookups) = 0 THEN <<>>
  ELSE LET l == Head(lookups)
           as == Prop(l, "as")
       IN << Stage("$lookup", Obj([from |-> Prop(l, "from"),
                                   localField |-> Prop(l, "localField"),
                                   foreignField |-> Prop(l, "foreignField"),
                                   as |-> as])) >>
          \o (IF Truthy(Prop(l, "unwind"))
              THEN << Stage("$unwind",
                            Obj([path |-> Str("$" \o as.v),
                                 preserveNullAndEmptyArrays |-> Bool(TRUE)])) >>
              ELSE <<>>)
          \o lookupStages(Tail(lookups))

UniversalPipelineBuilder_addLookups ==
  /\ cls = "UniversalPipelineBuilder" /\ pc \in {"new", "matched"}
  /\ \E lookups \in LookupsArgs : pipeline' = pipeline \o lookupStages(lookups.v)
  /\ pc' = "joined"
  /\ UNCHANGED <<userId, cls, coll, query, mongoQuery, sortOptions, selectFields,
                 paginationOptions, page, limit, paginateArg, data, total, result,
                 session, aggSession, countSession, matchArg, sortArg, isValidTwelve,
                 storageLog, execs, execsLeft>>

UniversalPipelineBuilder_addFields ==
  /\ cls = "UniversalPipelineBuilder" /\ pc \in {"new", "matched", "joined"}
  /\ \E fields \in AddFieldsArgs :
       pipeline' = IF Truthy(fields) /\ KeyCount(fields) > 0
                   THEN Append(pipeline, Stage("$addFields", fields)) ELSE pipeline
  /\ pc' = "computed"
  /\ UNCHANGED <<userId, cls, coll, query, mongoQuery, sortOptions, selectFields,
                 paginationOptions, page, limit, paginateArg, data, total, result,
                 session, aggSession, countSession, matchArg, sortArg, isValidTwelve,
                 storageLog, execs, execsLeft>>

UniversalPipelineBuilder_addProject ==
  /\ cls = "UniversalPipelineBuilder" /\ pc \in {"new", "matched", "joined", "computed"}
  /\ \E fields \in ProjectArgs :
       pipeline' = IF Truthy(fields) /\ KeyCount(fields) > 0
                   THEN Append(pipeline, Stage("$project", fields)) ELSE pipeline
  /\ pc' = "projected"
  /\ UNCHANGED <<userId, cls, coll, query, mongoQuery, sortOptions, selectFields,
                 paginationOptions, page, limit, paginateArg, data, total, result,
                 session, aggSession, countSession, matchArg, sortArg, isValidTwelve,
                 storageLog, execs, execsLeft>>

\* the page and the limit setPagination({ page: pageArg, limit: limitArg }) sets
setPaginationPage(pageArg) == ParseInt(OrElse(pageArg, Num(1)))
setPaginationLimit(limitArg) == MathMin(ParseInt(OrElse(limitArg, Num(20))), Num(100))

UniversalPipelineBuilder_setPagination ==
  /\ cls = "UniversalPipelineBuilder"
  /\ pc \in {"new", "matched", "joined", "computed", "projected"}
  /\ \E p \in PageArgs \cup {Num(2)}, l \in LimitArgs \cup {Num(3)} :
       /\ page' = setPaginationPage(p)
       /\ limit' = setPaginationLimit(l)
  /\ pc' = "paginated"
  /\ UNCHANGED <<userId, cls, coll, query, mongoQuery, sortOptions, selectFields,
                 paginationOptions, pipeline, paginateArg, data, total, result,
                 session, aggSession, countSession, matchArg, sortArg, isValidTwelve,
                 storageLog, execs, execsLeft>>

UniversalPipelineBuilder_setSort ==
  /\ cls = "UniversalPipelineBuilder"
  /\ pc \in {"new", "matched", "joined", "computed", "projected", "paginated"}
  /\ \E sortSpec \in SortArgs :
       /\ sortArg' = sortSpec
       /\ sortOptions' = IF Len(sortSpec.v) > 0 THEN sortSpec ELSE sortOptions
  /\ pc' = "sorted"
  /\ UNCHANGED <<userId, cls, coll, query, mongoQuery, selectFields, paginationOptions,
                 pipeline, page, limit, paginateArg, data, total, result,
                 session, aggSession, countSession, matchArg, isValidTwelve,
                 storageLog, execs, execsLeft>>

\* the stages exec(paginate = paginateFlag) pushes before it aggregates
execStages(sortSpec, pageNow, limitNow, paginateFlag) ==
  << Stage("$sort", sortSpec) >> \o
  (IF paginateFlag
   THEN << Stage("$skip", JsTimes(JsMinus(pageNow, Num(1)), limitNow)),
           Stage("$limit", limitNow) >>
   ELSE <<>>)

\* exec(paginate), to its first await: the stages are pushed, the aggregation issued
UniversalPipelineBuilder_exec ==
  /\ cls = "UniversalPipelineBuilder"
  /\ pc \in {"new", "matched", "joined", "computed", "projected", "paginated", "sorted",
             "done"}
  /\ execsLeft > 0
  /\ paginateArg' \in BOOLEAN
  /\ aggSession' = session
  /\ pipeline' = pipeline \o execStages(sortOptions, page, limit, paginateArg')
  /\ data' = Pending
  /\ storageLog' = << Event("aggregate", "issued") >>
  /\ execs' = Append(execs, [pipeline |-> pipeline, paginate |-> paginateArg',
                             result |-> Pending])
  /\ execsLeft' = execsLeft - 1
  /\ pc' = "aggregating"
  /\ UNCHANGED <<userId, cls, coll, query, mongoQuery, sortOptions, selectFields,
                 paginationOptions, page, limit, total, result,
                 session, countSession, matchArg, sortArg, isValidTwelve>>

\* the pagination object of UniversalPipelineBuilder.exec
pipelineBuilderPagination(pageNow, limitNow, count) ==
  [page |-> pageNow,
   limit |-> limitNow,
   total |-> count,
   pages |-> CeilDiv(count, limitNow),
   hasNext |-> JsLess(JsTimes(pageNow, limitNow), count),
   hasPrev |-> JsGreater(pageNow, Num(1))]

\* the aggregation is answered; exec goes on to the count, issued under
\* this.session as it is now
UniversalPipelineBuilder_aggregate ==
  /\ cls = "UniversalPipelineBuilder" /\ pc = "aggregating"
  /\ data' = Aggregate(Natural(coll), pipeline)
  /\ IF data'.t = "error"
     THEN /\ pc' = "failed" /\ result' = Thrown(data') /\ countSession' = countSession
          /\ storageLog' = Append(storageLog, Event("aggregate", "rejected"))
          /\ execs' = Returns(execs, result')
     ELSE /\ pc' = "counting" /\ result' = result /\ countSession' = session
          /\ storageLog' = storageLog \o << Event("aggregate", "fulfilled"),
                                            Event("countDocuments", "issued") >>
          /\ execs' = execs
  /\ UNCHANGED <<userId, cls, coll, query, mongoQuery, sortOptions, selectFields,
                 paginationOptions, pipeline, page, limit, paginateArg, total,
                 session, aggSession, matchArg, sortArg, isValidTwelve, execsLeft>>

\* the count is answered and exec returns: { data, pagination }, or the data alone
\* (held here as a result without pagination)
UniversalPipelineBuilder_countDocuments ==
  /\ cls = "UniversalPipelineBuilder" /\ pc = "counting"
  /\ total' = Num(CountDocuments(coll, CountFilter(pipeline)))
  /\ result' = IF paginateArg
               THEN [data |-> data.v,
                     pagination |-> pipelineBuilderPagination(page, limit, total')]
               ELSE [data |-> data.v, pagination |-> Undef]
  /\ storageLog' = Append(storageLog, Event("countDocuments", "fulfilled"))
  /\ execs' = Returns(execs, result')
  /\ pc' = "done"
  /\ UNCHANGED <<userId, cls, coll, query, mongoQuery, sortOptions, selectFields,
                 paginationOptions, pipeline, page, limit, paginateArg, data,
                 session, aggSession, countSession, matchArg, sortArg, isValidTwelve,
                 execsLeft>>

\* the aggregation is rejected by the storage and exec throws
UniversalPipelineBuilder_aggregateRejected ==
  /\ cls = "UniversalPipelineBuilder" /\ pc = "aggregating"
  /\ data' \in StorageErrors
  /\ result' = Thrown(data')
  /\ storageLog' = Append(storageLog, Event("aggregate", "rejected"))
  /\ execs' = Returns(execs, result')
  /\ pc' = "failed"
  /\ UNCHANGED <<userId, cls, coll, query, mongoQuery, sortOptions, selectFields,
                 paginationOptions, pipeline, page, limit, paginateArg,
                 total,
                 session, aggSession, countSession, matchArg, sortArg, isValidTwelve,
                 execsLeft>>

\* the count is rejected by the storage and exec throws
UniversalPipelineBuilder_countDocumentsRejected ==
  /\ cls = "UniversalPipelineBuilder" /\ pc = "counting"
  /\ total' \in StorageErrors
  /\ result' = Thrown(total')
  /\ storageLog' = Append(storageLog, Event("countDocuments", "rejected"))
  /\ execs' = Returns(execs, result')
  /\ pc' = "failed"
  /\ UNCHANGED <<userId, cls, coll, query, mongoQuery, sortOptions, selectFields,
                 paginationOptions, pipeline, page, limit, paginateArg,
                 data,
                 session, aggSession, countSession, matchArg, sortArg, isValidTwelve,
                 execsLeft>>

---------------------------------------------------------------------------
(* Initial states and specifications.                                      *)

Classes == {"QueryParser", "QueryConfig", "UniversalQueryBuilder",
            "UniversalPipelineBuilder"}

\* up to MaxDocs documents, or one more than the default page of a builder holds
Collections == {{Doc(i) : i \in 1..n} : n \in (0..MaxDocs) \cup {DefaultLimit + 1}}

\* the mapping that holds, of the keys ks, those whose value in f is not undefined
Mapping(f, ks) == [k \in {j \in ks : f[j].t # "undefined"} |-> f[k]]

\* the raw queries of the listings: page, limit, a status filter, a sort
ParserQueries ==
  {Mapping([page |-> p, limit |-> l, status |-> st, sort |-> so],
           {"page", "limit", "status", "sort"}) :
     p \in PageArgs, l \in LimitArgs,
     st \in {Undef, Str("active,pending")}, so \in {Undef, Str("createdAt:1")}}

\* the options given to QueryConfig.build
BuildOptions ==
  {Mapping([page |-> p, limit |-> l, query_data |-> qd],
           {"page", "limit", "query_data"}) :
     p \in PageArgs \cup {Num(2)}, l \in LimitArgs \cup {Num(250)},
     qd \in {Undef,
             Arr(<< Obj([name |-> Str("status"), value |-> Str("active"),
                         type |-> Str("array")]) >>)}}

Fresh ==
  /\ pc = "new"
  /\ mongoQuery = <<>>
  /\ selectFields = ""
  /\ paginationOptions = <<>>
  /\ pipeline = <<>>
  /\ page = Num(1)
  /\ limit = Num(DefaultLimit)
  /\ paginateArg = TRUE
  /\ data = Pending
  /\ total = Pending
  /\ result = Pending
  /\ session = Null
  /\ aggSession = Pending
  /\ countSession = Pending
  /\ matchArg = Undef
  /\ sortArg = Undef
  /\ storageLog = <<>>
  /\ execs = <<>>

\* a caller constructs one object of the layer over some collection
Init ==
  /\ cls \in Classes
  /\ coll \in (IF cls = "QueryConfig" THEN {{}} ELSE Collections)
  /\ query \in (CASE cls = "QueryParser" -> ParserQueries
                  [] cls = "QueryConfig" -> BuildOptions
                  [] OTHER -> {<<>>})
  /\ sortOptions = (IF cls = "UniversalPipelineBuilder"
                    THEN SortObject(<< <<"createdAt", -1>> >>)
                    ELSE SortObject(<<>>))
  /\ isValidTwelve \in BOOLEAN
  /\ execsLeft = 1
  /\ userId = Undef
  /\ Fresh

Next ==
  \/ QueryParser_filter
  \/ QueryParser_sort
  \/ QueryParser_select
  \/ QueryParser_paginate
  \/ QueryParser_execute
  \/ QueryParser_exec
  \/ QueryParser_countDocuments
  \/ QueryParser_return
  \/ QueryConfig_build
  \/ UniversalQueryBuilder_match
  \/ UniversalQueryBuilder_sortBy
  \/ UniversalQueryBuilder_paginate
  \/ UniversalQueryBuilder_exec
  \/ UniversalQueryBuilder_aggregate
  \/ UniversalQueryBuilder_countDocuments
  \/ UniversalPipelineBuilder_setMatchStages
  \/ UniversalPipelineBuilder_setPagination
  \/ UniversalPipelineBuilder_setSort
  \/ UniversalPipelineBuilder_exec
  \/ UniversalPipelineBuilder_aggregate
  \/ UniversalPipelineBuilder_countDocuments

Spec == Init /\ [][Next]_vars

\* the join listings: a builder over a small collection, with the joins, the
\* computed fields and the projections
JoinCollections == {{Doc(i) : i \in 1..n} : n \in {0, MaxJoinDocs}}

InitStages ==
  /\ cls \in {"UniversalQueryBuilder", "UniversalPipelineBuilder"}
  /\ coll \in JoinCollections
  /\ query = <<>>
  /\ sortOptions = (IF cls = "UniversalPipelineBuilder"
                    THEN SortObject(<< <<"createdAt", -1>> >>)
                    ELSE SortObject(<<>>))
  /\ isValidTwelve \in BOOLEAN
  /\ execsLeft = 1
  /\ userId = Undef
  /\ Fresh

NextStages ==
  \/ UniversalQueryBuilder_match
  \/ UniversalQueryBuilder_lookup
  \/ UniversalQueryBuilder_unwind
  \/ UniversalQueryBuilder_addFields
  \/ UniversalQueryBuilder_sortBy
  \/ UniversalQueryBuilder_paginate
  \/ UniversalQueryBuilder_project
  \/ UniversalQueryBuilder_exec
  \/ UniversalQueryBuilder_aggregate
  \/ UniversalQueryBuilder_countDocuments
  \/ UniversalPipelineBuilder_setMatchStages
  \/ UniversalPipelineBuilder_addLookups
  \/ UniversalPipelineBuilder_addFields
  \/ UniversalPipelineBuilder_addProject
  \/ UniversalPipelineBuilder_setPagination
  \/ UniversalPipelineBuilder_setSort
  \/ UniversalPipelineBuilder_exec
  \/ UniversalPipelineBuilder_aggregate
  \/ UniversalPipelineBuilder_countDocuments

SpecStages == InitStages /\ [][NextStages]_vars

\* the session listings: a builder whose session another task of the same
\* process may set while exec is suspended
SessionCollections == {{Doc(i) : i \in 1..n} : n \in 0..1}

InitSession ==
  /\ cls \in {"UniversalQueryBuilder", "UniversalPipelineBuilder"}
  /\ coll \in SessionCollections
  /\ query = <<>>
  /\ sortOptions = (IF cls = "UniversalPipelineBuilder"
                    THEN SortObject(<< <<"createdAt", -1>> >>)
                    ELSE SortObject(<<>>))
  /\ isValidTwelve \in BOOLEAN
  /\ execsLeft = 1
  /\ userId = Undef
  /\ Fresh

NextSession ==
  \/ UniversalQueryBuilder_setSession
  \/ UniversalQueryBuilder_match
  \/ UniversalQueryBuilder_exec
  \/ UniversalQueryBuilder_aggregate
  \/ UniversalQueryBuilder_countDocuments
  \/ UniversalPipelineBuilder_setSession
  \/ UniversalPipelineBuilder_setMatchStages
  \/ UniversalPipelineBuilder_exec
  \/ UniversalPipelineBuilder_aggregate
  \/ UniversalPipelineBuilder_countDocuments

SpecSession == InitSession /\ [][NextSession]_vars

\* the listings over a storage that may reject any operation
InitFaults ==
  /\ cls \in Classes \ {"QueryConfig"}
  /\ coll \in JoinCollections
  /\ query \in (IF cls = "QueryParser" THEN ParserQueries ELSE {<<>>})
  /\ sortOptions = (IF cls = "UniversalPipelineBuilder"
                    THEN SortObject(<< <<"createdAt", -1>> >>)
                    ELSE SortObject(<<>>))
  /\ isValidTwelve \in BOOLEAN
  /\ execsLeft = 1
  /\ userId = Undef
  /\ Fresh

NextFaults ==
  \/ QueryParser_filter
  \/ QueryParser_sort
  \/ QueryParser_select
  \/ QueryParser_paginate
  \/ QueryParser_execute
  \/ QueryParser_exec
  \/ QueryParser_execRejected
  \/ QueryParser_countDocuments
  \/ QueryParser_countDocumentsRejected
  \/ QueryParser_return
  \/ UniversalQueryBuilder_match
  \/ UniversalQueryBuilder_paginate
  \/ UniversalQueryBuilder_exec
  \/ UniversalQueryBuilder_aggregate
  \/ UniversalQueryBuilder_aggregateRejected
  \/ UniversalQueryBuilder_countDocuments
  \/ UniversalQueryBuilder_countDocumentsRejected
  \/ UniversalPipelineBuilder_setMatchStages
  \/ UniversalPipelineBuilder_setPagination
  \/ UniversalPipelineBuilder_exec
  \/ UniversalPipelineBuilder_aggregate
  \/ UniversalPipelineBuilder_aggregateRejected
  \/ UniversalPipelineBuilder_countDocuments
  \/ UniversalPipelineBuilder_countDocumentsRejected

SpecFaults == InitFaults /\ [][NextFaults]_vars

\* the options of the filter items: every type of item over a few names and
\* values, alone or before a second item, with and without a whitelist and a
\* search keyword
ItemNames == {Undef, Str("status"), Str("price"), Str("role")}
ItemValues == {Str("active"), Str("$ne"), Str("a$b"), Str(""), Num(10),
               Arr(<< Str("a"), Str("$gt") >>), Arr(<< Num(1), Num(2) >>)}
ItemTypes == {Str("select"), Str("number"), Str("date"), Str("array"), Str("exists"),
              Str("range"), Str("text")}
Items ==
  {Obj(Mapping([name |-> n, value |-> x, type |-> ty], {"name", "value", "type"})) :
     n \in ItemNames, x \in ItemValues, ty \in ItemTypes}
SecondItems ==
  {<<>>,
   << Obj([name |-> Str("price"), value |-> Str("10"), type |-> Str("number"),
           operator |-> Str("gte")]) >>,
   << Obj([name |-> Str("role"), value |-> Str("admin"), type |-> Str("select")]) >>}
AllowedLists == {Undef, Arr(<< Str("status") >>), Arr(<< Str("status"), Str("price") >>)}
SearchOptions == {<<>>, [q |-> Str("abc"), regexFields |-> Arr(<< Str("name") >>)]}
ItemOptions ==
  {Mapping([query_data |-> Arr(<<item>> \o more), allowedFields |-> al],
           {"query_data", "allowedFields"}) @@ so :
     item \in Items, more \in SecondItems, al \in AllowedLists, so \in SearchOptions}

InitItems ==
  /\ cls = "QueryConfig"
  /\ coll = {}
  /\ query \in ItemOptions
  /\ sortOptions = SortObject(<<>>)
  /\ isValidTwelve \in BOOLEAN
  /\ execsLeft = 1
  /\ userId = Undef
  /\ Fresh

NextItems == QueryConfig_build

SpecItems == InitItems /\ [][NextItems]_vars

\* the repeated listings: a caller that calls exec on its builder again
InitAgain ==
  /\ cls \in {"UniversalQueryBuilder", "UniversalPipelineBuilder"}
  /\ coll \in JoinCollections
  /\ query = <<>>
  /\ sortOptions = (IF cls = "UniversalPipelineBuilder"
                    THEN SortObject(<< <<"createdAt", -1>> >>)
                    ELSE SortObject(<<>>))
  /\ isValidTwelve \in BOOLEAN
  /\ execsLeft = MaxExecs
  /\ userId = Undef
  /\ Fresh

NextAgain ==
  \/ UniversalQueryBuilder_match
  \/ UniversalQueryBuilder_sortBy
  \/ UniversalQueryBuilder_paginate
  \/ UniversalQueryBuilder_exec
  \/ UniversalQueryBuilder_aggregate
  \/ UniversalQueryBuilder_countDocuments
  \/ UniversalPipelineBuilder_setMatchStages
  \/ UniversalPipelineBuilder_setPagination
  \/ UniversalPipelineBuilder_setSort
  \/ UniversalPipelineBuilder_exec
  \/ UniversalPipelineBuilder_aggregate
  \/ UniversalPipelineBuilder_countDocuments

SpecAgain == InitAgain /\ [][NextAgain]_vars

\* the listings over a collection that other clients write to
InitShared ==
  /\ cls = "QueryParser"
  /\ coll \in JoinCollections
  /\ query \in ParserQueries
  /\ sortOptions = SortObject(<<>>)
  /\ isValidTwelve \in BOOLEAN
  /\ execsLeft = 1
  /\ userId = Undef
  /\ Fresh

NextShared ==
  \/ QueryParser_filter
  \/ QueryParser_sort
  \/ QueryParser_select
  \/ QueryParser_paginate
  \/ QueryParser_execute
  \/ QueryParser_exec
  \/ QueryParser_countDocuments
  \/ QueryParser_return
  \/ Model_insertOne
  \/ Model_deleteOne

SpecShared == InitShared /\ [][NextShared]_vars

\* the user-scoped listings: getUserOrders and getUserNotifications construct the
\* parser over the caller's query with the userId of the session merged in
UserIds == <<"507f1f77bcf86cd799439011", "507f191e810c19729de860ea">>

\* document number i of a collection whose documents belong to the two users
OwnedDoc(i) == Doc(i) @@ ("userId" :> ObjectId(UserIds[(i % 2) + 1]))
OwnedCollections == {{OwnedDoc(i) : i \in 1..n} : n \in {0, MaxJoinDocs}}

\* a variant of Scoped in which the keys of the caller's query come last
ScopedMutant(q, id) == q @@ ("userId" :> id)

\* { ...query, userId }
Scoped(q, id) == Put(q, "userId", id)

\* what a caller may send as req.query
CallerFilters ==
  {<<>>,
   [userId |-> Str(UserIds[2])],
   [userId |-> Obj([ne |-> Str(UserIds[1])])],
   [userId |-> Str(UserIds[1] \o "," \o UserIds[2])],
   [userId |-> Obj([in |-> Str(UserIds[2])]), status |-> Str("active")],
   [status |-> Str("active,pending")],
   [status |-> Obj([ne |-> Str("active")]), search |-> Str("act")],
   ("$or" :> Arr(<< Obj([userId |-> Str(UserIds[2])]) >>))}
CallerWindows ==
  {<<>>, [page |-> Str("2"), limit |-> Str("1")], [fields |-> Str("status")],
   [sort |-> Str("createdAt:1"), limit |-> Str("2")]}
CallerQueries == {f @@ w : f \in CallerFilters, w \in CallerWindows}

InitScoped ==
  /\ cls = "QueryParser"
  /\ coll \in OwnedCollections
  /\ userId \in {ObjectId(UserIds[i]) : i \in DOMAIN UserIds}
  /\ query \in {Scoped(q, userId) : q \in CallerQueries}
  /\ sortOptions = SortObject(<<>>)
  /\ isValidTwelve \in BOOLEAN
  /\ execsLeft = 1
  /\ Fresh

NextScoped ==
  \/ QueryParser_filter
  \/ QueryParser_sort
  \/ QueryParser_select
  \/ QueryParser_paginate
  \/ QueryParser_execute
  \/ QueryParser_exec
  \/ QueryParser_countDocuments
  \/ QueryParser_return

SpecScoped == InitScoped /\ [][NextScoped]_vars

\* the user listings: GET /admin/users through the getUsers of the service, the
\* one over createQueryParser and the one over QueryConfig and the builder
UserDoc(i) == Doc(i) @@ ("role" :> Str(IF i = 1 THEN "admin" ELSE "user"))
UserCollections == {{UserDoc(i) : i \in 1..n} : n \in {0, 2, MaxJoinDocs}}
UserRequests ==
  {Mapping([role |-> r, page |-> p, limit |-> l], {"role", "page", "limit"}) :
     r \in {Undef, Str("admin"), Str("user")},
     p \in {Undef, Str("1"), Str("2")},
     l \in {Undef, Str("1"), Str("5")}}

InitUsers ==
  /\ cls \in {"QueryParser", "UserService"}
  /\ coll \in UserCollections
  /\ query \in UserRequests
  /\ sortOptions = SortObject(<<>>)
  /\ isValidTwelve \in BOOLEAN
  /\ execsLeft = 1
  /\ userId = Undef
  /\ Fresh

NextUsers ==
  \/ QueryParser_filter
  \/ QueryParser_sort
  \/ QueryParser_select
  \/ QueryParser_paginate
  \/ QueryParser_execute
  \/ QueryParser_exec
  \/ QueryParser_countDocuments
  \/ QueryParser_return
  \/ UserService_getUsers
  \/ UniversalQueryBuilder_aggregate
  \/ UniversalQueryBuilder_countDocuments

SpecUsers == InitUsers /\ [][NextUsers]_vars

\* the raw queries of the filter translation: one field with a scalar or an
\* operator mapping, and reserved control keys beside it
FieldNames == {"price", "name", "in", "userId"}
RawScalars == {Str("active"), Str("in"), Str("a,b"), Str("true"), Str("100"),
               Str("2023-01-01"), Str(""), Num(10), Num(20),
               Str("a,b,c"), Str("in,out"), Str("507f1f77bcf86cd799439011"),
               Str("not-an-id"), Str("abcdefghijkl"), Str("abcde,fghijk")}
SubKeys == {"gte", "lte", "regex", "$options", "foo"}
Operands == {Str("100"), Str("2023-01-01"), Str("abc"), Str(""), Str("m"),
             Num(10), Num(20)}
OperatorMappings ==
  UNION {[ks -> Operands] : ks \in {x \in SUBSET SubKeys : Cardinality(x) \in 1..MaxOps}}
RawValues == RawScalars \cup {Obj(m) : m \in OperatorMappings}
ControlKeys ==
  {<<>>,
   [search |-> Str("abc")],
   [page |-> Str("2"), limit |-> Str("5"), sort |-> Str("price:1"), fields |-> Str("name")],
   [page |-> Str("2"), limit |-> Str("5"), sort |-> Str("price:1"), fields |-> Str("name"),
    search |-> Str("abc")]}
FilterQueries ==
  {(f :> x) @@ c : f \in FieldNames, x \in RawValues, c \in ControlKeys}

InitFilter ==
  /\ cls = "QueryParser"
  /\ coll = {}
  /\ query \in FilterQueries
  /\ sortOptions = SortObject(<<>>)
  /\ isValidTwelve \in BOOLEAN
  /\ execsLeft = 1
  /\ userId = Undef
  /\ Fresh

NextFilter == QueryParser_filter

SpecFilter == InitFilter /\ [][NextFilter]_vars

---------------------------------------------------------------------------
(* Properties.                                                             *)

Returned == pc = "done" /\ cls # "QueryConfig" /\ result.pagination \notin {Null, Undef}

IsNumber(x) == x.t = "number"

AfterPaginate ==
  cls = "QueryParser" /\ pc \in {"paginated", "executing", "done", "failed"}

\* the number a query-string value stands for, or NaN
Requested(q, k) == ParseInt(Get(q, k))

\* C1: for page >= 1, limit > 0 and total >= 0 the pagination object returned by
\* QueryParser.execute, UniversalQueryBuilder.exec and UniversalPipelineBuilder.exec
\* has pages = ceil(total / limit), hasNext <=> page * limit < total and
\* hasPrev <=> page > 1.
C1_PaginationMetadata ==
  Returned =>
    LET pg == result.pagination
    IN (IsNumber(pg.page) /\ IsNumber(pg.limit) /\ IsNumber(pg.total)
        /\ pg.page.v >= 1 /\ pg.limit.v > 0 /\ pg.total.v >= 0)
       => /\ IsNumber(pg.pages)
          /\ pg.pages.v * pg.limit.v >= pg.total.v
          /\ (pg.pages.v - 1) * pg.limit.v < pg.total.v
          /\ pg.hasNext = (pg.page.v * pg.limit.v < pg.total.v)
          /\ pg.hasPrev = (pg.page.v > 1)

\* C1 happens: an aggregation returned page 2 of 5 pages of 3, of 13 documents
C1_Witness ==
  /\ Returned /\ cls = "UniversalQueryBuilder"
  /\ result.pagination = [page |-> Num(2), limit |-> Num(3), total |-> Num(13),
                          pages |-> Num(5), hasNext |-> TRUE, hasPrev |-> TRUE]

\* C2: after QueryParser.paginate the skip is (page - 1) times the effective
\* limit, the effective limit being min(requested limit, 100).
C2_SkipUsesEffectiveLimit ==
  AfterPaginate =>
    paginationOptions.skip.v
      = (paginationOptions.page.v - 1) * paginationOptions.limit.v

\* C3: QueryParser.paginate gives limit 10 for a requested limit below 1 or not
\* numeric, and page 1 for a requested page below 1 or not numeric.
C3_DefaultsBelowOne ==
  AfterPaginate =>
    /\ (~IsNumber(Requested(query, "limit")) \/ Requested(query, "limit").v < 1)
         => paginationOptions.limit = Num(10)
    /\ (~IsNumber(Requested(query, "page")) \/ Requested(query, "page").v < 1)
         => paginationOptions.page = Num(1)

\* C4: the limit applied to the data fetch never exceeds 100, through
\* QueryParser.paginate, QueryConfig.build, UniversalPipelineBuilder.setPagination
\* and UniversalQueryBuilder.paginate.
C4_LimitAtMost100 ==
  /\ AfterPaginate => paginationOptions.limit.v <= 100
  /\ (cls = "QueryConfig" /\ pc = "done") => result.limit.v <= 100
  /\ cls = "UniversalPipelineBuilder" => (IsNumber(limit) => limit.v <= 100)
  /\ \A i \in DOMAIN pipeline :
       (pipeline[i].op = "$limit" /\ IsNumber(pipeline[i].arg)) => pipeline[i].arg.v <= 100

\* the documents a listing of the model matches: every document, or with the
\* status filter those that are active or pending
Wanted ==
  IF "status" \in DOMAIN query
  THEN {d \in coll : d["status"] \in {Str("active"), Str("pending")}}
  ELSE coll

\* whether document a is listed before document b: by creation, descending
\* unless the query sorts ascending
Earlier(a, b) ==
  IF "sort" \in DOMAIN query
  THEN a["createdAt"].v < b["createdAt"].v
  ELSE a["createdAt"].v > b["createdAt"].v

\* simple mode returned the window of the sorted matches that starts after skip
\* documents and holds at most lim, with the page and the limit asked for
SimpleModeResult(p, lim) ==
  LET recs == result.data
      skip == (p - 1) * lim
      T == Cardinality(Wanted)
      n == IF T - skip < 0 THEN 0 ELSE IF T - skip < lim THEN T - skip ELSE lim
  IN /\ result.pagination.page = Num(p)
     /\ result.pagination.limit = Num(lim)
     /\ result.pagination.total = Num(T)
     /\ Len(recs) = n
     /\ \A i \in 1..n : recs[i] \in Wanted
     /\ \A i \in 1..(n - 1) :
          /\ Earlier(recs[i], recs[i + 1])
          /\ ~\E d \in Wanted : Earlier(recs[i], d) /\ Earlier(d, recs[i + 1])
     /\ n > 0 => Cardinality({d \in Wanted : Earlier(d, recs[1])}) = skip

SimpleModeDone == cls = "QueryParser" /\ pc = "done"

Filtered_ == cls = "QueryParser" /\ pc = "filtered"

ReservedKeys == {"page", "limit", "sort", "fields", "search"}

\* C6: the filter QueryParser.filter produces holds no predicate keyed by a
\* reserved control key (page, limit, sort, fields, search).
C6_NoReservedKey == Filtered_ => DOMAIN mongoQuery \cap ReservedKeys = {}

PriceRange == [price |-> Obj([gte |-> Num(10), lte |-> Num(20)])]
PriceRangePredicate == [price |-> Obj(("$gte" :> Num(10)) @@ ("$lte" :> Num(20)))]

MappedFields == {f \in DOMAIN query \ excludeFields : query[f].t = "object"}

\* C8: a gte/gt/lte/lt operand becomes a date only when it is a string that is an
\* ISO-8601 date; every other string operand is left as it is.
C8_DateOnlyForIso ==
  Filtered_ =>
    \A f \in MappedFields : \A k \in DOMAIN query[f].v \cap {"gte", "gt", "lte", "lt"} :
      LET raw == query[f].v[k]
          out == Prop(mongoQuery[ReplaceOperators(f)], "$" \o k)
      IN (raw.t = "string" /\ out.t # "undefined")
         => IF IsIsoDate(raw.v) THEN out = DateV(raw.v) ELSE out = raw

\* C9: every key of an operator mapping that is not gte, gt, lte, lt, in, nin, ne
\* or regex (here: nor $options, which C10 is about) is in the resulting clause
\* with the same key and the same value.
C9_UnknownKeysPassThrough ==
  Filtered_ =>
    \A f \in MappedFields : \A k \in DOMAIN query[f].v \ (OpWords \cup {"$options"}) :
      Prop(mongoQuery[ReplaceOperators(f)], k) = query[f].v[k]

\* C10: with a regex key (here: one whose pattern is not empty) the predicate
\* matches case-insensitively (options 'i') unless the caller supplies $options,
\* and then with the options supplied.
C10_RegexOptions ==
  Filtered_ =>
    \A f \in MappedFields :
      Truthy(Prop(query[f], "regex")) =>
        Prop(mongoQuery[ReplaceOperators(f)], "$options")
          = (IF "$options" \in DOMAIN query[f].v THEN query[f].v["$options"] ELSE Str("i"))

\* the top-level fields of the raw query that filter() translates and whose
\* value is a string
StringFields == {f \in DOMAIN query \ excludeFields : query[f].t = "string"}

\* the clause of the filter for the field f of the raw query
Clause(f) == Get(mongoQuery, ReplaceOperators(f))

\* C11: every top-level string value holding a comma becomes the $in clause over
\* exactly its comma-separated parts, in order, and the clause is still there
\* when filter() returns.
C11_CommaBecomesIn ==
  Filtered_ =>
    \A f \in StringFields :
      Includes(query[f].v, ",")
        => Clause(f) = Obj("$in" :> Arr(Split(query[f].v, ",")))

\* the storage identifier format: 24 hexadecimal characters
IsIdentifierFormat(s) == Len(s) = 24 /\ \A i \in 1..24 : Char(s, i) \in HexChars

\* whether one of the other rules of the pass applies to the string: it holds a
\* comma, it is a boolean word, or it holds an operator word
OtherRuleApplies(s) ==
  \/ Includes(s, ",")
  \/ ToLowerCase(s) \in {"true", "false"}
  \/ ReplaceOperators(s) # s

\* C12: for a field whose lowercased name holds "id", a string value in the
\* identifier format becomes the native identifier and a string value not in
\* that format is not coerced (it is the same string when no other rule of the
\* pass applies); a field whose name does not hold "id" never gets an identifier.
C12_IdentifierCoercion ==
  Filtered_ =>
    \A f \in StringFields :
      LET v == query[f].v
      IN IF Includes(ToLowerCase(f), "id")
         THEN IF IsIdentifierFormat(v) THEN Clause(f) = ObjectId(v)
              ELSE /\ Clause(f).t # "ObjectId"
                   /\ ~OtherRuleApplies(v) => Clause(f) = Str(v)
         ELSE Clause(f).t # "ObjectId"

\* the first documents of the collection in descending order of creation, at
\* most lim of them
NewestFirst(lim) ==
  LET n == Cardinality(coll)
  IN [k \in 1..(IF n < lim THEN n ELSE lim) |-> Doc(n + 1 - k)]

\* C13: for the empty raw mapping filter() yields the empty filter, sort() the
\* single pair (createdAt, descending) and paginate() page 1, limit 10, skip 0,
\* and execute returns the first 10 documents of the whole collection in
\* descending order of creation, with total = the size of the collection.
C13_EmptyQuery ==
  (cls = "QueryParser" /\ query = <<>>) =>
    /\ pc # "new" => mongoQuery = <<>>
    /\ pc \notin {"new", "filtered"}
         => sortOptions = SortObject(<< <<"createdAt", -1>> >>)
    /\ AfterPaginate
         => paginationOptions = [page |-> Num(1), limit |-> Num(10), skip |-> Num(0)]
    /\ pc # "failed"
    /\ pc = "done" =>
         /\ result.data = NewestFirst(10)
         /\ result.pagination.total = Num(Cardinality(coll))
         /\ result.pagination.page = Num(1)
         /\ result.pagination.limit = Num(10)

\* C13 happens: the empty query over 13 documents returned the 10 newest
C13_Witness ==
  /\ cls = "QueryParser" /\ query = <<>> /\ pc = "done"
  /\ Cardinality(coll) = 13
  /\ Len(result.data) = 10
  /\ result.data[1] = Doc(13) /\ result.data[10] = Doc(4)

\* the filters of the $match stages of a pipeline
MatchFilters(stages) ==
  {stages[i].arg.v : i \in {j \in DOMAIN stages : stages[j].op = "$match"}}

\* the number of $match stages of a pipeline
MatchCount(stages) == Cardinality({j \in DOMAIN stages : stages[j].op = "$match"})

\* C14: when the pipeline of a builder holds several $match stages, the total
\* exec returns is the number of documents that satisfy all of their filters.
C14_MatchesConjoin ==
  (Returned /\ MatchCount(pipeline) >= 2) =>
    result.pagination.total
      = Num(Cardinality({d \in coll : \A flt \in MatchFilters(pipeline) : Matches(d, flt)}))

HasStage(stages, op) == \E i \in DOMAIN stages : stages[i].op = op

Builder == cls \in {"UniversalQueryBuilder", "UniversalPipelineBuilder"}

\* the documents of the collection that satisfy every $match filter of the pipeline
Matched == {d \in coll : \A flt \in MatchFilters(pipeline) : Matches(d, flt)}

\* C15: for a collection and a match filter, the total exec returns is the
\* number of documents satisfying the filter, whatever lookup, addFields,
\* project, sort and pagination stages stand after the match.
C15_TotalOfMatchOnly ==
  (Returned /\ MatchCount(pipeline) <= 1) =>
    result.pagination.total = Num(Cardinality(Matched))

\* C15 happens: of 4 documents one is active, and the total is 1 with a join,
\* computed fields, a sort, a window and a projection after the match
C15_Witness ==
  /\ Returned /\ Cardinality(coll) = 4
  /\ Len(pipeline) > 0 /\ pipeline[1] = Stage("$match", ActiveFilter)
  /\ HasStage(pipeline, "$lookup") /\ HasStage(pipeline, "$addFields")
  /\ HasStage(pipeline, "$project") /\ HasStage(pipeline, "$sort")
  /\ HasStage(pipeline, "$limit")
  /\ result.pagination.total = Num(1)

\* the rows of the returned data that stem from document d
RowsOf(d) == {i \in DOMAIN result.data : result.data[i]["_id"] = d["_id"]}

\* C16: with a join flattened by $unwind with preserveNullAndEmptyArrays, and no
\* window, the data holds exactly one row for each matching document, whatever
\* the number of related documents.
C16_FlattenSingle ==
  (Builder /\ pc = "done" /\ HasStage(pipeline, "$unwind")
     /\ ~HasStage(pipeline, "$skip") /\ ~HasStage(pipeline, "$limit"))
  => \A d \in Matched : Cardinality(RowsOf(d)) = 1

\* C17: match called with a non-empty filter object appends the $match stage of
\* that filter, and the total exec returns counts the documents satisfying it.
C17_MatchObject ==
  (cls = "UniversalQueryBuilder" /\ matchArg.t = "object" /\ KeyCount(matchArg) > 0) =>
    /\ \E i \in DOMAIN pipeline : pipeline[i] = Stage("$match", matchArg)
    /\ Returned =>
         result.pagination.total = Num(Cardinality({d \in coll : Matches(d, matchArg.v)}))

Executed == Builder /\ pc \in {"aggregating", "counting", "done", "failed"}

\* C18: when no sort was set on a builder (sortBy / setSort not called, or called
\* with an empty spec) the pipeline exec runs sorts by createdAt descending.
C18_DefaultSort ==
  (Executed /\ (sortArg = Undef \/ Len(sortArg.v) = 0)) =>
    \E i \in DOMAIN pipeline :
      pipeline[i] = Stage("$sort", SortObject(<< <<"createdAt", -1>> >>))

\* no stage was added to the builder before exec: the pipeline holds nothing,
\* or for the pipeline builder what exec itself pushes with the settings of
\* the constructor
NoStageAdded ==
  \/ cls = "UniversalQueryBuilder" /\ pipeline = <<>>
  \/ /\ cls = "UniversalPipelineBuilder"
     /\ page = Num(1) /\ limit = Num(DefaultLimit)
     /\ sortOptions = SortObject(<< <<"createdAt", -1>> >>)
     /\ pipeline = execStages(sortOptions, page, limit, paginateArg)

\* C19: exec on a builder to which no stage was added is not an error and
\* returns every document of the collection.
C19_FullScan ==
  (Executed /\ NoStageAdded) =>
    /\ pc # "failed"
    /\ pc = "done" => Len(result.data) = Cardinality(coll)

\* C20: the aggregation and the count of one exec call run under the same
\* session handle.
C20_SameSession ==
  (Builder /\ pc \in {"counting", "done"} /\ countSession # Pending)
    => aggSession = countSession

\* the entries of log that issue an operation among ops
Issues(log, ops) ==
  {i \in 1..Len(log) : log[i].ev = "issued" /\ log[i].op \in ops}

\* the entries of log that answer an operation among ops
Answers(log, ops) ==
  {i \in 1..Len(log) : log[i].ev \in {"fulfilled", "rejected"} /\ log[i].op \in ops}

DataFetches == {"find", "aggregate"}
Counts == {"countDocuments"}

\* C21: each call to QueryParser.execute, UniversalQueryBuilder.exec or
\* UniversalPipelineBuilder.exec issues at most two storage operations, one data
\* fetch and one count, and the data fetch is issued before any answer to the
\* count: it neither waits for the count nor takes anything from it.
C21_AtMostTwoOperations ==
  /\ Cardinality(Issues(storageLog, DataFetches)) <= 1
  /\ Cardinality(Issues(storageLog, Counts)) <= 1
  /\ \A i \in Issues(storageLog, DataFetches) :
       \A j \in Answers(storageLog, Counts) : i < j
  /\ (Issues(storageLog, Counts) # {}) => (Issues(storageLog, DataFetches) # {})

\* C21: an execute whose data fetch was answered while its count was still out
C21_Witness ==
  /\ cls = "QueryParser" /\ pc = "executing"
  /\ data.t = "array" /\ total = Pending
  /\ Len(storageLog) = 3

\* what the first rejected operation of the call under way was rejected with
FirstRejection ==
  IF Head(Rejections(storageLog)).op \in DataFetches THEN data ELSE total

\* C22: once the data fetch or the count of an execute / exec call was rejected,
\* the call does not return a result: it throws the very error the first rejected
\* operation was rejected with, and no operation of the call is issued twice.
C22_ErrorsPropagate ==
  (cls # "QueryConfig" /\ Rejections(storageLog) # <<>>) =>
    /\ pc # "done"
    /\ pc = "failed" => result = FirstRejection /\ result.t = "error"
    /\ \A op \in DataFetches \cup Counts :
         Cardinality(Issues(storageLog, {op})) <= 1

\* C22: an execute whose count was rejected after its data fetch was answered
C22_Witness ==
  /\ cls = "QueryParser" /\ pc = "failed"
  /\ data.t = "array" /\ total \in StorageErrors
  /\ result = total

\* C23: QueryConfig.build returns a page of at least 1 and a limit from 1 to 100
\* for every page and limit it is given, and the limit 5 when it is given none.
C23_BuildPageAndLimit ==
  (cls = "QueryConfig" /\ pc = "done") =>
    /\ IsNumber(result.page) /\ result.page.v >= 1
    /\ IsNumber(result.limit) /\ result.limit.v >= 1 /\ result.limit.v <= 100
    /\ "limit" \notin DOMAIN query => result.limit = Num(5)

\* the filters build(o) put under $and, and those of them that come from
\* query_data: all but the search over regexFields
FiltersOf(built) ==
  IF Len(built.filters) = 0 THEN <<>> ELSE built.filters[1].arg.v["$and"].v
IsItemFilter(f) == DOMAIN f.v # {"$or"}
ItemFiltersOf(built) == SelectSeq(FiltersOf(built), IsItemFilter)

\* the names of the whitelist given in q, and q without the items it excludes
Whitelist(q) == {q["allowedFields"].v[i] : i \in DOMAIN q["allowedFields"].v}
IsListed(item) == Prop(item, "name") \in Whitelist(query)
Listed(q) == Put(q, "query_data", Arr(SelectSeq(q["query_data"].v, IsListed)))

WhitelistMode ==
  /\ cls = "QueryConfig" /\ pc = "done"
  /\ "allowedFields" \in DOMAIN query /\ Len(query["allowedFields"].v) > 0

\* C24: with a non-empty allowedFields, every filter that build derives from
\* query_data names a member of allowedFields, and the items naming any other
\* field leave no trace: build returns what it returns without them.
C24_WhitelistMode ==
  WhitelistMode =>
    /\ \A i \in DOMAIN ItemFiltersOf(result) :
         \A k \in DOMAIN ItemFiltersOf(result)[i].v : Str(k) \in Whitelist(query)
    /\ result = build(Listed(query))

\* C24: a whitelist that kept one item and dropped another
C24_Witness ==
  /\ WhitelistMode
  /\ Len(query["query_data"].v) = 2
  /\ Len(ItemFiltersOf(result)) = 1
  /\ Prop(query["query_data"].v[1], "value") # Str("")
  /\ Prop(query["query_data"].v[1], "name") = Str("role")

\* the strings among the values of the JS value x: x itself, the elements of an
\* array, the values of a mapping, at any depth the filters reach
RECURSIVE StringsIn(_)
StringsIn(x) ==
  CASE x.t = "string" -> {x.v}
    [] x.t = "array" -> UNION {StringsIn(x.v[i]) : i \in DOMAIN x.v}
    [] x.t = "object" -> UNION {StringsIn(x.v[k]) : k \in DOMAIN x.v}
    [] OTHER -> {}

\* C27: no string value in a filter that QueryConfig.build derives from a
\* query_data item contains the character '$', whatever the type of the item.
C27_NoDollarInValues ==
  (cls = "QueryConfig" /\ pc = "done") =>
    \A i \in DOMAIN ItemFiltersOf(result) :
      \A str \in StringsIn(ItemFiltersOf(result)[i]) : ~Includes(str, "$")

\* C26: QueryParser.filter prefixes operator words only where they are keys of a
\* nested operator mapping: every top-level field keeps its name, and a scalar
\* string value that is one of the words gte, gt, lte, lt, in, nin, ne, regex is
\* the value of its field in the filter, unchanged.
C26_RewriteOnlyNestedKeys ==
  Filtered_ =>
    /\ \A f \in DOMAIN query \ ReservedKeys : f \in DOMAIN mongoQuery
    /\ \A f \in StringFields \ ReservedKeys :
         query[f].v \in OpWords => Get(mongoQuery, f) = query[f]

\* C28: exec leaves the pipeline of a UniversalQueryBuilder and of a
\* UniversalPipelineBuilder as it found it, and a second exec with the same
\* argument over the unchanged collection returns what the first returned.
C28_ExecLeavesPipeline ==
  (cls \in {"UniversalQueryBuilder", "UniversalPipelineBuilder"} /\ pc = "done") =>
    /\ pipeline = execs[Len(execs)].pipeline
    /\ (Len(execs) = 2 /\ execs[1].paginate = execs[2].paginate)
         => execs[2].result = execs[1].result

\* C30: every result of QueryParser.execute holds no more records than its
\* pagination.total and no more than its pagination.limit, also when other
\* clients insert or delete documents between the data fetch and the count.
C30_ResultConsistent ==
  (cls = "QueryParser" /\ pc = "done") =>
    /\ Len(result.data) <= result.pagination.total.v
    /\ Len(result.data) <= result.pagination.limit.v

\* the documents of the collection that belong to the user of the session
Own == {d \in coll : d["userId"] = userId}

\* C29: in a user-scoped listing the filter of the data fetch and of the count
\* constrains userId to the userId of the session whatever the caller's query
\* holds: every record returned is a document of that user and the total counts
\* documents of that user only.
C29_UserScoped ==
  (cls = "QueryParser" /\ userId # Undef /\ pc \notin {"new"}) =>
    /\ "userId" \in DOMAIN mongoQuery /\ mongoQuery["userId"] = userId
    /\ data.t = "array" =>
         \A i \in DOMAIN data.v : \E d \in Own : d["_id"] = data.v[i]["_id"]
    /\ total.t = "number" => total.v <= Cardinality(Own)

\* C29: a listing over the documents of two users that returned documents, all
\* of them the caller's
C29_Witness ==
  /\ cls = "QueryParser" /\ pc = "done"
  /\ userId = ObjectId(UserIds[1])
  /\ Own # {} /\ Own # coll
  /\ Len(result.data) > 0
  /\ result.pagination.total.v = Cardinality(Own)

\* the users whose role is the role the request asks for
WithRole == {d \in coll : d["role"] = query["role"]}

\* C25: a listing of users requested with role=R returns only users whose role
\* is R, and its pagination total counts those users only.
C25_RoleFilter ==
  (pc = "done" /\ "role" \in DOMAIN query /\ result.pagination \notin {Null, Undef}) =>
    /\ \A i \in DOMAIN result.data : result.data[i]["role"] = query["role"]
    /\ result.pagination.total = Num(Cardinality(WithRole))

=============================================================================
